---- MODULE Spec2Model ----
(***************************************************************************)
(* Model of the Fitzpatrick skin-type pipeline (map_creation/map.py and    *)
(* its usa_map variant): the eligibility-text segmenter, the skin-type     *)
(* classifier, the row assembler and the geocoding planner with its query  *)
(* cache.  Texts are sequences of one-character strings, so substring      *)
(* tests, lower-casing and the regular expressions are computed character  *)
(* by character as Python computes them.                                   *)
(***************************************************************************)
EXTENDS Integers, Sequences, FiniteSets, TLC

VARIABLES
    phase,            \* which step of the modelled run has been taken
    sentence,         \* the argument of extract_and_standardize_scores
    score_data,       \* the dictionary extract_and_standardize_scores returned
    eligibility_text, \* the eligibilityCriteria text of the study record
    keyword,          \* the keyword argument of parse_eligibility_criteria
    found_sentences,  \* the list parse_eligibility_criteria returned
    df_to_geocode,    \* the argument of geocode_locations_with_places_api
    df,               \* the table geocode_locations_with_places_api works on
    rows_to_process,  \* the index labels of the rows whose query is not 'SKIP'
    pos,              \* the position of the geocoding loop in rows_to_process
    query_cache,      \* query string -> the stored lookup result
    gmaps_calls,      \* the queries gmaps.places was called with, in order
    studies,          \* the study records process_raw_data is given
    study_pos,        \* the position of its loop over the studies
    all_facility_rows,\* the rows assembled so far
    all_race_keys,    \* the Race_* keys seen so far
    df_processed,     \* the table process_raw_data returns
    study_record,     \* the argument of extract_study_details
    returned_details, \* the dictionary extract_study_details returned
    use_lock,         \* the loop body is run by two workers: with a lock or without
    lock,             \* the worker that holds the lock around check-then-insert; 0 if none
    worker_pc,        \* worker -> where it stands in the loop body
    worker_row,       \* worker -> the index label of the row it is processing
    worker_result,    \* worker -> what its call of gmaps.places returned
    raw_json,         \* the file RAW_JSON_FILENAME
    final_csv,        \* the file FINAL_MASTER_CSV (FINAL_OUTPUT_CSV in usa_map)
    map_html,         \* the file MAP_OUTPUT_HTML: the map_data it was made from
    stage_log,        \* the stages main has run, in order
    df_final,         \* the table main hands to the map
    geocoding_input,  \* the table construct_geoquery.py writes
    unparsed_csv      \* the file usa_map/unparsed_studies.csv

classifyVars == <<sentence, score_data>>
segmentVars == <<eligibility_text, keyword, found_sentences>>
geoVars == <<df_to_geocode, df, rows_to_process, pos, query_cache, gmaps_calls>>
assembleVars == <<studies, study_pos, all_facility_rows, all_race_keys, df_processed>>

extractVars == <<study_record, returned_details>>
workerVars == <<use_lock, lock, worker_pc, worker_row, worker_result>>
mainVars == <<raw_json, final_csv, map_html, stage_log, df_final>>

sideVars == <<geocoding_input, unparsed_csv>>

\* the variables of the operations added after the first four
otherVars == <<extractVars, workerVars, mainVars, sideVars>>

vars == <<phase, classifyVars, segmentVars, geoVars, assembleVars, otherVars>>

(***************************************************************************)
(* Characters and Python string primitives                                 *)
(***************************************************************************)
LowerLetters ==
    {"a","b","c","d","e","f","g","h","i","j","k","l","m",
     "n","o","p","q","r","s","t","u","v","w","x","y","z"}

UpperLetters ==
    {"A","B","C","D","E","F","G","H","I","J","K","L","M",
     "N","O","P","Q","R","S","T","U","V","W","X","Y","Z"}

Digits == {"0","1","2","3","4","5","6","7","8","9"}

LowerTable ==
    [A |-> "a", B |-> "b", C |-> "c", D |-> "d", E |-> "e", F |-> "f",
     G |-> "g", H |-> "h", I |-> "i", J |-> "j", K |-> "k", L |-> "l",
     M |-> "m", N |-> "n", O |-> "o", P |-> "p", Q |-> "q", R |-> "r",
     S |-> "s", T |-> "t", U |-> "u", V |-> "v", W |-> "w", X |-> "x",
     Y |-> "y", Z |-> "z"]

UpperTable ==
    [a |-> "A", b |-> "B", c |-> "C", d |-> "D", e |-> "E", f |-> "F",
     g |-> "G", h |-> "H", i |-> "I", j |-> "J", k |-> "K", l |-> "L",
     m |-> "M", n |-> "N", o |-> "O", p |-> "P", q |-> "Q", r |-> "R",
     s |-> "S", t |-> "T", u |-> "U", v |-> "V", w |-> "W", x |-> "X",
     y |-> "Y", z |-> "Z"]

\* str.lower() and str.upper(), one character at a time
LowerChar(c) == IF c \in UpperLetters THEN LowerTable[c] ELSE c
UpperChar(c) == IF c \in LowerLetters THEN UpperTable[c] ELSE c
Lower(s) == [k \in 1..Len(s) |-> LowerChar(s[k])]
Upper(s) == [k \in 1..Len(s) |-> UpperChar(s[k])]

\* the Python string a character sequence spells
RECURSIVE Str(_)
Str(s) == IF s = <<>> THEN "" ELSE s[1] \o Str(Tail(s))

\* text[p+1 .. p+Len(lit)] = lit : the literal lit occurs at offset p
LitAt(text, p, lit) ==
    /\ p + Len(lit) <= Len(text)
    /\ \A k \in 1..Len(lit) : text[p + k] = lit[k]

\* Python's  pat in text
Contains(text, pat) == \E p \in 0..(Len(text) - Len(pat)) : LitAt(text, p, pat)

\* \w, \s and \b of the re module; offset p lies between text[p] and text[p+1]
IsWordChar(c) == c \in LowerLetters \cup UpperLetters \cup Digits \cup {"_"}
IsSpace(c) == c \in {" ", "\t", "\n", "\r"}
WordAt(text, k) == k >= 1 /\ k <= Len(text) /\ IsWordChar(text[k])
WordBoundary(text, p) == WordAt(text, p) # WordAt(text, p + 1)

\* \s* : greedy; the pattern element after it never starts with a blank, so
\* giving blanks back can never help and the end offset is the only candidate
RECURSIVE SkipSpaces(_, _)
SkipSpaces(text, p) ==
    IF p < Len(text) /\ IsSpace(text[p + 1]) THEN SkipSpaces(text, p + 1) ELSE p

\* the first element of a sequence of offsets that is not the failure mark -1
RECURSIVE FirstHit(_)
FirstHit(ends) ==
    IF ends = <<>> THEN -1
    ELSE IF ends[1] # -1 THEN ends[1] ELSE FirstHit(Tail(ends))

(***************************************************************************)
(* extract_and_standardize_scores: the regular expressions                 *)
(***************************************************************************)
\* literal match under re.IGNORECASE
LitAtIgnoreCase(text, p, lit) ==
    /\ p + Len(lit) <= Len(text)
    /\ \A k \in 1..Len(lit) : LowerChar(text[p + k]) = lit[k]

\* (vi|v|iv|iii|ii|i|l|[1-6]) : the alternatives in the order the regex tries them
NumeralAlternatives ==
    << <<"v","i">>, <<"v">>, <<"i","v">>, <<"i","i","i">>, <<"i","i">>, <<"i">>,
       <<"l">>, <<"1">>, <<"2">>, <<"3">>, <<"4">>, <<"5">>, <<"6">> >>

\* \b(vi|v|iv|iii|ii|i|l|[1-6])\b tried at offset p: the end offset of the
\* match, or -1.  The \b that follows the group rejects every alternative but
\* the one that ends the word, so the first alternative that passes it is the
\* one the backtracking engine settles on.
valid_numeral_pattern(text, p) ==
    IF ~WordBoundary(text, p) THEN -1
    ELSE FirstHit([k \in 1..Len(NumeralAlternatives) |->
            LET alt == NumeralAlternatives[k] IN
            IF LitAtIgnoreCase(text, p, alt) /\ WordBoundary(text, p + Len(alt))
            THEN p + Len(alt) ELSE -1])

\* (?:-|to|through) : the alternatives in order
RangeSeparators == << <<"-">>, <<"t","o">>, <<"t","h","r","o","u","g","h">> >>

NoMatch == [found |-> FALSE, g1 |-> <<>>, g2 |-> <<>>]

\* numeral \s* (?:-|to|through) \s* numeral tried at offset p
range_pattern(text, p) ==
    LET e1 == valid_numeral_pattern(text, p) IN
    IF e1 = -1 THEN NoMatch
    ELSE
      LET e2 == SkipSpaces(text, e1)
          \* for each separator: the offset where the second numeral starts,
          \* provided the second numeral matches there
          tries == [k \in 1..Len(RangeSeparators) |->
                      LET sep == RangeSeparators[k]
                          e3 == SkipSpaces(text, e2 + Len(sep))
                      IN IF LitAtIgnoreCase(text, e2, sep)
                            /\ valid_numeral_pattern(text, e3) # -1
                         THEN e3 ELSE -1]
          e4 == FirstHit(tries)
      IN IF e4 = -1 THEN NoMatch
         ELSE [found |-> TRUE,
               g1 |-> SubSeq(text, p + 1, e1),
               g2 |-> SubSeq(text, e4 + 1, valid_numeral_pattern(text, e4))]

\* re.search(range_pattern, text): the leftmost offset at which it matches
RECURSIVE SearchRangeFrom(_, _)
SearchRangeFrom(text, p) ==
    IF p > Len(text) THEN NoMatch
    ELSE LET m == range_pattern(text, p) IN
         IF m.found THEN m ELSE SearchRangeFrom(text, p + 1)

range_match(text) == SearchRangeFrom(text, 0)

\* re.findall(valid_numeral_pattern, text): non-overlapping matches, left to right
RECURSIVE FindAllFrom(_, _)
FindAllFrom(text, p) ==
    IF p > Len(text) THEN <<>>
    ELSE LET e == valid_numeral_pattern(text, p) IN
         IF e # -1 THEN <<SubSeq(text, p + 1, e)>> \o FindAllFrom(text, e)
         ELSE FindAllFrom(text, p + 1)

numerals_found(text) == FindAllFrom(text, 0)

(***************************************************************************)
(* extract_and_standardize_scores: the decision order                      *)
(***************************************************************************)
wrinkle == <<"w","r","i","n","k","l","e">>
all == <<"a","l","l">>
any == <<"a","n","y">>

Romans == <<"I", "II", "III", "IV", "V", "VI">>

roman_map == [I |-> 1, II |-> 2, III |-> 3, IV |-> 4, V |-> 5, VI |-> 6]

\* {v: k for k, v in roman_map.items()}
to_roman_map == [v \in {roman_map[k] : k \in DOMAIN roman_map} |->
                    CHOOSE k \in DOMAIN roman_map : roman_map[k] = v]

\* _to_int without the legacy alias: 'L' falls through to roman_map.get
to_int_NoAlias(s) ==
    LET s_upper == Str(Upper(s)) IN
    IF s # <<>> /\ \A k \in 1..Len(s) : s[k] \in Digits
    THEN CHOOSE d \in 0..9 : ToString(d) = Str(s)
    ELSE IF s_upper \in DOMAIN roman_map THEN roman_map[s_upper] ELSE 0

\* _to_int; Python's None is written 0: no numeral converts to 0
to_int(s) ==
    LET s_upper == Str(Upper(s)) IN
    IF s_upper = "L" THEN 1
    ELSE IF s # <<>> /\ \A k \in 1..Len(s) : s[k] \in Digits
         THEN CHOOSE d \in 0..9 : ToString(d) = Str(s)
    ELSE IF s_upper \in DOMAIN roman_map THEN roman_map[s_upper] ELSE 0

TypeKey(roman) == "Type_" \o roman

InitialResult ==
    [extracted_score |-> "Not Specified", Type_I |-> 0, Type_II |-> 0,
     Type_III |-> 0, Type_IV |-> 0, Type_V |-> 0, Type_VI |-> 0]

\* the veto term matched as a whole word only (\bwrinkle\b)
HasVetoTerm_WholeWord(text) ==
    \E word \in {wrinkle} : \E p \in 0..(Len(text) - Len(word)) :
        LitAt(text, p, word) /\ WordBoundary(text, p) /\ WordBoundary(text, p + Len(word))

\* any(word in text for word in ['wrinkle'])
HasVetoTerm(text) == \E word \in {wrinkle} : Contains(text, word)

\* the 'any' test left out
HasAllWord_OnlyAll(text) == Contains(text, all)

\* 'all' in text or 'any' in text
HasAllWord(text) == Contains(text, all) \/ Contains(text, any)

\* result.update({k: 1 for k in result if k.startswith('Type_')})
AllFlags(result) ==
    [k \in DOMAIN result |-> IF k = "extracted_score" THEN result[k] ELSE 1]

\* the loop body applied to lo, lo + 1, ..., hi
RECURSIVE SetRange(_, _, _)
SetRange(result, lo, hi) ==
    IF lo > hi THEN result
    ELSE SetRange(IF lo \in DOMAIN to_roman_map
                  THEN [result EXCEPT ![TypeKey(to_roman_map[lo])] = 1]
                  ELSE result, lo + 1, hi)

\* range(start_num, end_num): the end numeral is left out
RangeFlags_Exclusive(result, start_num, end_num) ==
    SetRange(result, start_num, end_num - 1)

\* for i in range(start_num, end_num + 1): if i in to_roman_map: result[...] = 1
RangeFlags(result, start_num, end_num) == SetRange(result, start_num, end_num)

\* to_roman_map.get(n, '')
RomanOrEmpty(n) == IF n \in DOMAIN to_roman_map THEN to_roman_map[n] ELSE ""

\* the label assigned outside the start_num < end_num test
RangeBranch_LabelAlways(result, start_str, end_str) ==
    LET start_num == to_int(start_str)
        end_num == to_int(end_str)
        flagged == IF start_num # 0 /\ end_num # 0 /\ start_num < end_num
                   THEN RangeFlags(result, start_num, end_num) ELSE result
    IN [flagged EXCEPT
          !.extracted_score = RomanOrEmpty(start_num) \o "-" \o RomanOrEmpty(end_num)]

\* the branch taken when range_match is truthy
RangeBranch(result, start_str, end_str) ==
    LET start_num == to_int(start_str)
        end_num == to_int(end_str)
    IN IF start_num # 0 /\ end_num # 0 /\ start_num < end_num
       THEN [RangeFlags(result, start_num, end_num) EXCEPT
                !.extracted_score = RomanOrEmpty(start_num) \o "-" \o RomanOrEmpty(end_num)]
       ELSE result

\* sorted(list(S)) for a set of integers
RECURSIVE Sorted(_)
Sorted(S) ==
    IF S = {} THEN <<>>
    ELSE LET m == CHOOSE x \in S : \A y \in S : x <= y
         IN <<m>> \o Sorted(S \ {m})

\* the scores deduplicated in order of first appearance, sorted() left out
RECURSIVE FirstSeen(_, _)
FirstSeen(nums, seen) ==
    IF nums = <<>> THEN <<>>
    ELSE IF nums[1] \in seen THEN FirstSeen(Tail(nums), seen)
    ELSE <<nums[1]>> \o FirstSeen(Tail(nums), seen \cup {nums[1]})

Scores_Unsorted(found) ==
    FirstSeen([k \in 1..Len(found) |-> to_int(found[k])], {0})

\* sorted(list(set(_to_int(n) for n in numerals_found if _to_int(n) is not None)))
Scores(found) ==
    Sorted({to_int(found[k]) : k \in 1..Len(found)} \ {0})

\* ", ".join(roman_scores)
RECURSIVE Join(_)
Join(strs) ==
    IF strs = <<>> THEN ""
    ELSE IF Len(strs) = 1 THEN strs[1]
    ELSE strs[1] \o ", " \o Join(Tail(strs))

\* for score in scores: ... result[Type_<roman>] = 1; roman_scores.append(roman)
RECURSIVE SetScores(_, _)
SetScores(result, scores) ==
    IF scores = <<>> THEN result
    ELSE SetScores(IF scores[1] \in DOMAIN to_roman_map
                   THEN [result EXCEPT ![TypeKey(to_roman_map[scores[1]])] = 1]
                   ELSE result, Tail(scores))

roman_scores(scores) ==
    LET keep == SelectSeq(scores, LAMBDA n : n \in DOMAIN to_roman_map)
    IN [k \in 1..Len(keep) |-> to_roman_map[keep[k]]]

\* the else branch: no range match
EnumerationBranch(result, text) ==
    LET scores == Scores(numerals_found(text))
        marked == SetScores(result, scores)
    IN IF roman_scores(scores) # <<>>
       THEN [marked EXCEPT !.extracted_score = Join(roman_scores(scores))]
       ELSE marked

\* a discarded range falling back to the enumeration
NumeralRules_Fallback(result, text) ==
    LET m == range_match(text) IN
    IF m.found /\ to_int(m.g1) < to_int(m.g2) THEN RangeBranch(result, m.g1, m.g2)
    ELSE EnumerationBranch(result, text)

\* if range_match: ... else: ...
NumeralRules(result, text) ==
    LET m == range_match(text) IN
    IF m.found THEN RangeBranch(result, m.g1, m.g2)
    ELSE EnumerationBranch(result, text)

extract_and_standardize_scores(s) ==
    LET text == Lower(s)
        result == InitialResult
    IN IF HasVetoTerm(text)
       THEN [result EXCEPT !.extracted_score = "Not a Skin Type Score"]
       ELSE IF HasAllWord(text)
       THEN [AllFlags(result) EXCEPT !.extracted_score = "All"]
       ELSE NumeralRules(result, text)

(***************************************************************************)
(* parse_eligibility_criteria                                              *)
(***************************************************************************)
exclusion == <<"e","x","c","l","u","s","i","o","n">>

SEARCH_KEYWORD == <<"f","i","t","z","p","a","t","r","i","c","k">>

\* re.split(lit, text, flags=re.IGNORECASE) with no maxsplit: the text is cut
\* at every non-overlapping occurrence of lit, scanning from offset p; from is
\* the offset where the current piece starts
RECURSIVE SplitOnLiteral(_, _, _, _)
SplitOnLiteral(text, lit, p, from) ==
    IF p + Len(lit) > Len(text) THEN <<SubSeq(text, from + 1, Len(text))>>
    ELSE IF LitAtIgnoreCase(text, p, lit)
    THEN <<SubSeq(text, from + 1, p)>>
            \o SplitOnLiteral(text, lit, p + Len(lit), p + Len(lit))
    ELSE SplitOnLiteral(text, lit, p + 1, from)

\* re.split(r'[.\n]', text_part)
RECURSIVE SplitOnChars(_, _, _, _)
SplitOnChars(text, chars, p, from) ==
    IF p >= Len(text) THEN <<SubSeq(text, from + 1, Len(text))>>
    ELSE IF text[p + 1] \in chars
    THEN <<SubSeq(text, from + 1, p)>> \o SplitOnChars(text, chars, p + 1, p + 1)
    ELSE SplitOnChars(text, chars, p + 1, from)

\* str.strip()
RECURSIVE LStrip(_)
LStrip(s) == IF s # <<>> /\ IsSpace(s[1]) THEN LStrip(Tail(s)) ELSE s

RECURSIVE RStrip(_)
RStrip(s) ==
    IF s # <<>> /\ IsSpace(s[Len(s)]) THEN RStrip(SubSeq(s, 1, Len(s) - 1)) ELSE s

Strip(s) == RStrip(LStrip(s))

\* the inner loop: the sentences of one text part that mention the keyword
SentencesOfPart(text_part, kw, is_exclusion) ==
    LET pieces == SplitOnChars(text_part, {".", "\n"}, 0, 0)
        kept == SelectSeq(pieces,
                    LAMBDA piece : Contains(Lower(piece), kw) /\ Strip(piece) # <<>>)
    IN [k \in 1..Len(kept) |->
            [sentence |-> Strip(kept[k]), is_exclusion |-> is_exclusion]]

\* parts = re.split(r'exclusion', eligibility_text, flags=re.IGNORECASE)
ExclusionParts(text) == SplitOnLiteral(text, exclusion, 0, 0)

parse_eligibility_criteria(text, kw) ==
    IF text = <<>> THEN <<>>
    ELSE LET parts == ExclusionParts(text)
             second == IF Len(parts) > 1 THEN parts[2] ELSE <<>>
         IN (IF parts[1] = <<>> THEN <<>> ELSE SentencesOfPart(parts[1], kw, FALSE))
            \o (IF second = <<>> THEN <<>> ELSE SentencesOfPart(second, kw, TRUE))

(***************************************************************************)
(* geocode_locations_with_places_api: the query planner                    *)
(***************************************************************************)
SKIP == <<"S","K","I","P">>
NA == <<"N","/","A">>
nan == <<"n","a","n">>
CallSuneva == <<"C","a","l","l"," ","S","u","n","e","v","a">>
site == <<"s","i","t","e">>
ZeroZip == <<"0","0","0","0","0">>

StartsWith(s, prefix) == LitAt(s, 0, prefix)
EndsWith(s, suffix) == Len(suffix) <= Len(s) /\ LitAt(s, Len(s) - Len(suffix), suffix)

\* df['facility'].str.lower().str.endswith('site')
ends_with_site(facility) == EndsWith(Lower(facility), site)

\* df['facility'].str.contains(r'\d+$'): $ matches at the end of the string
\* and just before a newline that ends it
ends_with_number(facility) ==
    LET n == Len(facility) IN
    \/ n >= 1 /\ facility[n] \in Digits
    \/ n >= 2 /\ facility[n] = "\n" /\ facility[n - 1] \in Digits

fatal_flaw(row) ==
    \/ row.facility \in {NA, nan}
    \/ StartsWith(row.facility, CallSuneva)
    \/ row.zip \in {ZeroZip}
    \/ ends_with_site(row.facility)
    \/ ends_with_number(row.facility)

\* 'nan' left out of the list of missing zip codes
bad_zip_OnlyNA(row) == row.zip \in {NA}

bad_zip(row) == row.zip \in {NA, nan}

search_query(row) ==
    IF fatal_flaw(row) THEN SKIP
    ELSE IF ~bad_zip(row)
    THEN row.facility \o <<",", " ">> \o row.city \o <<",", " ">>
            \o row.state \o <<" ">> \o row.zip
    ELSE row.facility \o <<",", " ">> \o row.city \o <<",", " ">> \o row.state

\* a cell that is no string: None, or the float NaN
NoneCell == <<"None">>
NaNCell == <<"NaN">>

\* pd.isnull
IsNull(cell) == cell \in {NoneCell, NaNCell}

\* str(value): a string is left as it is, None gives 'None', NaN gives 'nan'
AsStr(cell) ==
    IF cell = NoneCell THEN <<"N","o","n","e">>
    ELSE IF cell = NaNCell THEN nan
    ELSE cell

\* for col in ['facility', 'city', 'state', 'zip']: df[col] = df[col].astype(str)
CastColumns(row) ==
    [row EXCEPT !.facility = AsStr(@), !.city = AsStr(@),
                !.state = AsStr(@), !.zip = AsStr(@)]

\* the table after the planning part: the four columns cast to strings,
\* search_query filled in, place_name = ''
Planned(table) ==
    [i \in 1..Len(table) |->
        [CastColumns(table[i]) EXCEPT !.search_query = search_query(CastColumns(table[i])),
                                      !.place_name = ""]]

(***************************************************************************)
(* construct_geoquery.py: the planner as a script of its own               *)
(***************************************************************************)
\* fatal_flaw_mask, with its test for null cells
standalone_fatal_flaw(row) ==
    \/ IsNull(row.facility) \/ IsNull(row.city) \/ IsNull(row.state)
    \/ row.facility \in {NA, nan}
    \/ StartsWith(row.facility, CallSuneva)
    \/ row.zip \in {ZeroZip}
    \/ ends_with_site(row.facility)
    \/ ends_with_number(row.facility)

\* bad_zip_mask
standalone_bad_zip(row) == IsNull(row.zip) \/ row.zip \in {NA, nan}

standalone_search_query(row) ==
    IF standalone_fatal_flaw(row) THEN SKIP
    ELSE IF ~standalone_bad_zip(row)
    THEN row.facility \o <<",", " ">> \o row.city \o <<",", " ">>
            \o row.state \o <<" ">> \o row.zip
    ELSE row.facility \o <<",", " ">> \o row.city \o <<",", " ">> \o row.state

\* df[final_column_order]: 'nctid' is a placeholder if the input has none, the
\* coordinates are blanked
OutputRow(row, query) ==
    [nctid |-> IF "nctId" \in DOMAIN row THEN row.nctId ELSE "N/A",
     search_query |-> query,
     facility |-> row.facility, state |-> row.state, city |-> row.city, zip |-> row.zip,
     latitude |-> "nan", longitude |-> "nan"]

\* the masks taken on the cells as they were read and the cast done after
\* them: a null cell is a fatal flaw although it would be cast to a string
StandalonePlanned_MasksBeforeCast(table) ==
    [i \in 1..Len(table) |->
        OutputRow(CastColumns(table[i]),
                  IF IsNull(table[i].facility) \/ IsNull(table[i].city)
                        \/ IsNull(table[i].state)
                  THEN SKIP
                  ELSE standalone_search_query(CastColumns(table[i])))]

\* the table the script writes to facilities_geocoding_input.csv
StandalonePlanned(table) ==
    [i \in 1..Len(table) |->
        OutputRow(CastColumns(table[i]), standalone_search_query(CastColumns(table[i])))]

\* the filter on 'SKIP' left out: every row is put in rows_to_process
Workable_All(table) == [i \in 1..Len(table) |-> i]

\* rows_to_process = df[df['search_query'] != 'SKIP'], as index labels in order
Workable(table) ==
    SelectSeq([i \in 1..Len(table) |-> i], LAMBDA i : table[i].search_query # SKIP)

(***************************************************************************)
(* geocode_locations_with_places_api: the loop with its query cache        *)
(***************************************************************************)
\* what query_cache holds: a response with its 'results' list, or None
Response(places) == [none |-> FALSE, results |-> places]
CachedNone == [none |-> TRUE, results |-> <<>>]

\* the result written to the row and never to query_cache
CacheStore_Dropped(cache, query, result) == cache

\* query_cache[query] = result
CacheStore(cache, query, result) ==
    [q \in DOMAIN cache \cup {query} |-> IF q = query THEN result ELSE cache[q]]

\* the except branch left without its query_cache[query] = None
CacheFailure_NotStored(cache, query) == cache

\* except Exception: query_cache[query] = None
CacheFailure(cache, query) == CacheStore(cache, query, CachedNone)

\* the write-back addressed by query instead of by index label: every row
\* that carries the query of the current row is written
WriteBack_Siblings(table, index, result) ==
    [i \in 1..Len(table) |->
        IF table[i].search_query # table[index].search_query THEN table[i]
        ELSE IF ~result.none /\ result.results # <<>>
        THEN [table[i] EXCEPT !.latitude = result.results[1].lat,
                              !.longitude = result.results[1].lng,
                              !.place_name = result.results[1].name]
        ELSE [table[i] EXCEPT !.place_name = "NO_RESULTS_FOUND"]]

\* the else branch clearing the coordinates of a row nothing was found for
WriteBack_ClearsCoordinates(table, index, result) ==
    IF ~result.none /\ result.results # <<>>
    THEN [table EXCEPT ![index].latitude = result.results[1].lat,
                       ![index].longitude = result.results[1].lng,
                       ![index].place_name = result.results[1].name]
    ELSE [table EXCEPT ![index].latitude = "None",
                       ![index].longitude = "None",
                       ![index].place_name = "NO_RESULTS_FOUND"]

\* the coordinates written only to a row that came without any
WriteBack_KeepsSourceCoordinates(table, index, result) ==
    IF ~result.none /\ result.results # <<>>
    THEN IF table[index].latitude = "None"
         THEN [table EXCEPT ![index].latitude = result.results[1].lat,
                            ![index].longitude = result.results[1].lng,
                            ![index].place_name = result.results[1].name]
         ELSE [table EXCEPT ![index].place_name = result.results[1].name]
    ELSE [table EXCEPT ![index].place_name = "NO_RESULTS_FOUND"]

\* if result and result.get('results'): ... else: ...
WriteBack(table, index, result) ==
    IF ~result.none /\ result.results # <<>>
    THEN [table EXCEPT ![index].latitude = result.results[1].lat,
                       ![index].longitude = result.results[1].lng,
                       ![index].place_name = result.results[1].name]
    ELSE [table EXCEPT ![index].place_name = "NO_RESULTS_FOUND"]

(***************************************************************************)
(* The tables the geocoder is run on: 1..MaxRows rows                      *)
(***************************************************************************)
MaxRows == 3

Facilities == { <<"M","a","i","n"," ","C","l","i","n","i","c">>,
                <<"M","a","y","o"," ","C","l","i","n","i","c">>,
                <<"T","r","i","a","l"," ","S","i","t","e">> }

Zips == { <<"1","9","1","0","4">>, NA }

InputRows ==
    [facility : Facilities, city : { <<"E","r","i","e">> }, state : { <<"P","A">> }, zip : Zips,
     latitude : {"40.0"}, longitude : {"-75.0"},
     search_query : { <<>> }, place_name : {""}]

\* what the Places text search can answer: ranked candidate lists
Place1 == [name |-> "Penn Dermatology", lat |-> "41.0", lng |-> "-76.0"]
Place2 == [name |-> "Mayo Clinic Annex", lat |-> "42.0", lng |-> "-77.0"]

CandidateLists == { <<Place1>>, <<Place2, Place1>> }

\* the row at position i comes with its own coordinates
WithCoordinates(rows) ==
    [i \in 1..Len(rows) |->
        [rows[i] EXCEPT !.latitude = "4" \o ToString(i) \o ".0",
                        !.longitude = "-7" \o ToString(i) \o ".0"]]

(***************************************************************************)
(* The tables the query planner is examined on: 1..MaxPlanRows rows whose  *)
(* facility names and zip codes cover every test of fatal_flaw and bad_zip *)
(***************************************************************************)
MaxPlanRows == 2

PlanFacilities ==
    { <<"M","a","i","n"," ","C","l","i","n","i","c">>,
      <<"O","n","s","i","t","e"," ","L","a","b">>,
      NA, nan,
      <<"C","a","l","l"," ","S","u","n","e","v","a"," ","N","o","w">>,
      <<"S","u","n","e","v","a"," ","M","e","d","i","c","a","l"," ","S","i","t","e">>,
      <<"M","a","i","n"," ","C","l","i","n","i","c"," ","1","2">>,
      <<"U","n","i","t"," ","7","\n">> }

PlanZips == { <<"1","9","1","0","4">>, NA, nan, ZeroZip }

PlanInputRows ==
    [facility : PlanFacilities, city : { <<"E","r","i","e">> }, state : { <<"P","A">> }, zip : PlanZips,
     latitude : {"40.0"}, longitude : {"-75.0"},
     search_query : { <<>> }, place_name : {""}]

(***************************************************************************)
(* The loop body run by two workers on one table and one query_cache:      *)
(* 1..MaxWorkerRows rows                                                   *)
(***************************************************************************)
MaxWorkerRows == 2

Workers == {1, 2}

WorkerInputRows == {row \in InputRows : row.zip # NA}

\* what one call of gmaps.places can come back with; None stands for a raise
CallOutcomes == {Response(places) : places \in CandidateLists \cup {<<>>}} \cup {CachedNone}

(***************************************************************************)
(* The tables the two planners are compared on: 1..MaxCompareRows rows     *)
(* whose cells can be null                                                 *)
(***************************************************************************)
MaxCompareRows == 2

CompareFacilities ==
    { <<"M","a","i","n"," ","C","l","i","n","i","c">>,
      NA, nan, NoneCell, NaNCell,
      <<"C","a","l","l"," ","S","u","n","e","v","a"," ","N","o","w">>,
      <<"S","u","n","e","v","a"," ","M","e","d","i","c","a","l"," ","S","i","t","e">>,
      <<"M","a","i","n"," ","C","l","i","n","i","c"," ","1","2">> }

CompareInputRows ==
    [facility : CompareFacilities,
     city : { <<"E","r","i","e">>, NaNCell }, state : { <<"P","A">> },
     zip : { <<"1","9","1","0","4">>, NA, NaNCell },
     latitude : {"40.0"}, longitude : {"-75.0"},
     search_query : { <<>> }, place_name : {""}]

(***************************************************************************)
(* extract_study_details.  A study record is flattened: its nested         *)
(* dictionaries become the fields of one record.  Coordinates are written  *)
(* as strings, "None" for Python's None.                                   *)
(***************************************************************************)
COUNTRY_TO_ISOLATE == "United States"

\* dict.get(key) and dict.get(key, default) on a geoPoint
GeoGet(geoPoint, key) == IF key \in DOMAIN geoPoint THEN geoPoint[key] ELSE "None"

\* for loc in locations: if loc.get('country') == country and loc.get('geoPoint')
us_facilities(locations, country) ==
    LET kept == SelectSeq(locations,
                    LAMBDA loc : loc.country = country /\ DOMAIN loc.geoPoint # {})
    IN [k \in 1..Len(kept) |->
            [facility |-> kept[k].facility, city |-> kept[k].city,
             state |-> kept[k].state, zip |-> kept[k].zip,
             latitude |-> GeoGet(kept[k].geoPoint, "lat"),
             longitude |-> GeoGet(kept[k].geoPoint, "lon")]]

\* int(value) of a string of digits
RECURSIVE ParseInt(_)
ParseInt(s) ==
    IF s = <<>> THEN 0
    ELSE 10 * ParseInt(SubSeq(s, 1, Len(s) - 1))
            + (CHOOSE d \in 0..9 : ToString(d) = s[Len(s)])

\* sum(int(m.get('value', 0)) for m in cat.get('measurements', []))
RECURSIVE total_count(_)
total_count(measurements) ==
    IF measurements = <<>> THEN 0
    ELSE ParseInt(measurements[1]) + total_count(Tail(measurements))

\* f"Race_{race_title.replace(' ', '_')}"
RaceKey(race_title) ==
    "Race_" \o Str([k \in 1..Len(race_title) |->
                       IF race_title[k] = " " THEN "_" ELSE race_title[k]])

\* details['race_data']: one entry per titled category, a later one overwriting
RECURSIVE race_data(_)
race_data(categories) ==
    IF categories = <<>> THEN [k \in {} |-> 0]
    ELSE LET cat == categories[Len(categories)]
             before == race_data(SubSeq(categories, 1, Len(categories) - 1))
         IN IF cat.title = <<>> THEN before
            ELSE [k \in DOMAIN before \cup {RaceKey(cat.title)} |->
                     IF k = RaceKey(cat.title) THEN total_count(cat.measurements)
                     ELSE before[k]]

extract_study_details(study, country) ==
    [status |-> study.overallStatus,
     us_facilities |-> us_facilities(study.locations, country),
     enrollment |-> study.enrollment.count,
     enrollment_type |-> study.enrollment.type,
     race_data |-> race_data(study.race_categories),
     last_update_year |->
        IF Len(study.lastUpdateDate) >= 4
        THEN Str(SubSeq(study.lastUpdateDate, 1, 4)) ELSE "N/A"]

(***************************************************************************)
(* process_raw_data                                                        *)
(***************************************************************************)
\* d.update(e): the entries of e added to d, overwriting
Update(d, e) == [k \in DOMAIN d \cup DOMAIN e |-> IF k \in DOMAIN e THEN e[k] ELSE d[k]]

\* [s['sentence'] for s in parse_eligibility_criteria(...) if not s['is_exclusion']]
inclusion_sentences(study) ==
    LET kept == SelectSeq(parse_eligibility_criteria(study.eligibilityCriteria,
                                                     SEARCH_KEYWORD),
                          LAMBDA f : ~f.is_exclusion)
    IN [k \in 1..Len(kept) |-> kept[k].sentence]

\* the loop body falling back to the first inclusion sentence that is not vetoed
StudyRows_FallBack(study) ==
    LET details == extract_study_details(study, COUNTRY_TO_ISOLATE)
        sentences == SelectSeq(inclusion_sentences(study),
                        LAMBDA x : extract_and_standardize_scores(x).extracted_score
                                      # "Not a Skin Type Score")
        scores == extract_and_standardize_scores(sentences[1])
        base == [nctId |-> study.nctId, status |-> details.status,
                 enrollment |-> details.enrollment,
                 enrollment_type |-> details.enrollment_type,
                 last_update_year |-> details.last_update_year]
    IN IF details.us_facilities = <<>> THEN <<>>
       ELSE IF sentences = <<>> THEN <<>>
       ELSE [k \in 1..Len(details.us_facilities) |->
                Update(Update(Update(base, scores), details.us_facilities[k]),
                       details.race_data)]

\* the loop body taking the first keyword-bearing sentence, exclusion or not
StudyRows_AnySentence(study) ==
    LET details == extract_study_details(study, COUNTRY_TO_ISOLATE)
        found == parse_eligibility_criteria(study.eligibilityCriteria, SEARCH_KEYWORD)
        scores == extract_and_standardize_scores(found[1].sentence)
        base == [nctId |-> study.nctId, status |-> details.status,
                 enrollment |-> details.enrollment,
                 enrollment_type |-> details.enrollment_type,
                 last_update_year |-> details.last_update_year]
    IN IF details.us_facilities = <<>> THEN <<>>
       ELSE IF found = <<>> THEN <<>>
       ELSE IF scores.extracted_score = "Not a Skin Type Score" THEN <<>>
       ELSE [k \in 1..Len(details.us_facilities) |->
                Update(Update(Update(base, scores), details.us_facilities[k]),
                       details.race_data)]

\* the rows one study appends to all_facility_rows
StudyRows(study) ==
    LET details == extract_study_details(study, COUNTRY_TO_ISOLATE)
        sentences == inclusion_sentences(study)
        scores == extract_and_standardize_scores(sentences[1])
        base == [nctId |-> study.nctId, status |-> details.status,
                 enrollment |-> details.enrollment,
                 enrollment_type |-> details.enrollment_type,
                 last_update_year |-> details.last_update_year]
    IN IF details.us_facilities = <<>> THEN <<>>
       ELSE IF sentences = <<>> THEN <<>>
       ELSE IF scores.extracted_score = "Not a Skin Type Score" THEN <<>>
       ELSE [k \in 1..Len(details.us_facilities) |->
                Update(Update(Update(base, scores), details.us_facilities[k]),
                       details.race_data)]

\* the update moved below the two skips: only a study that adds rows adds keys
StudyRaceKeys_AfterSkips(study) ==
    LET details == extract_study_details(study, COUNTRY_TO_ISOLATE)
    IN IF StudyRows(study) = <<>> THEN {} ELSE DOMAIN details.race_data

\* all_race_keys.update(details['race_data'].keys()), reached only when the
\* study has a qualifying facility
StudyRaceKeys(study) ==
    LET details == extract_study_details(study, COUNTRY_TO_ISOLATE)
    IN IF details.us_facilities = <<>> THEN {} ELSE DOMAIN details.race_data

skin_type_cols == {TypeKey(Romans[n]) : n \in 1..6}

\* df[skin_type_cols].sum(axis=1)
RECURSIVE SumOver(_, _)
SumOver(row, cols) ==
    IF cols = {} THEN 0
    ELSE LET c == CHOOSE x \in cols : TRUE IN row[c] + SumOver(row, cols \ {c})

FlagSum(row) == SumOver(row, skin_type_cols)

\* pd.DataFrame(rows), the Race_* columns added, fillna(0): every row gets
\* every column; a missing cell and a None coordinate become 0
Filled(rows, race_keys) ==
    LET columns == UNION {DOMAIN rows[k] : k \in 1..Len(rows)} \cup race_keys
    IN [k \in 1..Len(rows) |->
          [c \in columns |->
              IF c \notin DOMAIN rows[k] THEN 0
              ELSE IF c \in {"latitude", "longitude"} /\ rows[k][c] = "None" THEN "0"
              ELSE rows[k][c]]]

\* unparsed_mask = sum == 0; if not df[~unparsed_mask].empty: df = df[~unparsed_mask]
DropUnparsed(table) ==
    LET parsed == SelectSeq(table, LAMBDA row : FlagSum(row) # 0)
    IN IF parsed # <<>> THEN parsed ELSE table

\* everything after the loop
BuildTable(rows, race_keys) ==
    IF rows = <<>> THEN <<>> ELSE DropUnparsed(Filled(rows, race_keys))

(***************************************************************************)
(* main of usa_map: the same loop inlined, and its own table building      *)
(***************************************************************************)
\* set(FILTERS.get('min_participants_by_race', {}).keys())
FilterRaceKeys == {"Race_Black_or_African_American", "Race_White", "Race_Asian"}

WithoutKey(d, key) == [k \in DOMAIN d \ {key} |-> d[k]]

\* the rows one study appends: those of process_raw_data without last_update_year
UsaStudyRows(study) ==
    [k \in 1..Len(StudyRows(study)) |-> WithoutKey(StudyRows(study)[k], "last_update_year")]

\* pd.DataFrame(rows), the Race_* columns, enrollment 0 replaced by 'N/A', fillna
UsaFilled(rows, race_keys) ==
    LET filled == Filled(rows, race_keys)
    IN [k \in 1..Len(filled) |->
          [filled[k] EXCEPT !.enrollment = IF @ = 0 THEN "N/A" ELSE @]]

\* unparsed_df = df[unparsed_mask]
Unparsed(table) == SelectSeq(table, LAMBDA row : FlagSum(row) = 0)

\* unparsed_df[['nctId', 'facility', 'city', 'state', 'extracted_score']]
UnparsedReport(table) ==
    [k \in 1..Len(Unparsed(table)) |->
        [c \in {"nctId", "facility", "city", "state", "extracted_score"} |->
            Unparsed(table)[k][c]]]

\* the drop done only if a parsed row remains, as process_raw_data does it
UsaTable_KeptIfAllUnparsed(table) == DropUnparsed(table)

\* if not unparsed_df.empty: df = df[~unparsed_mask]
UsaTable(table) == SelectSeq(table, LAMBDA row : FlagSum(row) # 0)

(***************************************************************************)
(* extract_study_details on a record as the registry delivers it: the      *)
(* 'Race (NIH/OMB)' measure with its list of classes, each class a list of *)
(* categories, each measurement a dictionary that may lack its 'value'.    *)
(***************************************************************************)
\* m.get('value', 0)
ValueOrDefault(m) == IF "value" \in DOMAIN m THEN m.value ELSE <<"0">>

\* int(x) returns for a string of digits and raises ValueError otherwise
IsIntLiteral(s) == s # <<>> /\ \A k \in 1..Len(s) : s[k] \in Digits

\* measure.get('classes', [{}])[0].get('categories', []) with each measurement
\* replaced by the argument int() is given
FirstClassCategories(study) ==
    LET categories == study.race_classes[1] IN
    [k \in 1..Len(categories) |->
        [title |-> categories[k].title,
         measurements |-> [j \in 1..Len(categories[k].measurements) |->
                              ValueOrDefault(categories[k].measurements[j])]]]

\* the calls that raise: [0] on an empty list of classes (IndexError), int() on
\* a value that is no number (ValueError), reached only for a titled category
ExtractionRaises(study) ==
    IF study.race_classes = <<>> THEN TRUE
    ELSE \E k \in 1..Len(FirstClassCategories(study)) :
            LET cat == FirstClassCategories(study)[k] IN
            /\ cat.title # <<>>
            /\ \E j \in 1..Len(cat.measurements) : ~IsIntLiteral(cat.measurements[j])

\* the record in the flattened form extract_study_details is defined on
Flattened(study) ==
    [locations |-> study.locations,
     race_categories |-> FirstClassCategories(study),
     overallStatus |-> study.overallStatus,
     lastUpdateDate |-> study.lastUpdateDate,
     enrollment |-> study.enrollment]

(***************************************************************************)
(* The study collections process_raw_data is run on: 1..MaxStudies studies *)
(***************************************************************************)
MaxStudies == 2

CriteriaTexts ==
    { <<"F","i","t","z","p","a","t","r","i","c","k"," ","I","-","I","V","."," ","E","x","c","l","u","s","i","o","n",":"," ","F","i","t","z","p","a","t","r","i","c","k"," ","V","I">>,
      <<"F","i","t","z","p","a","t","r","i","c","k"," ","s","k","i","n"," ","t","y","p","e","."," ","F","i","t","z","p","a","t","r","i","c","k"," ","V">>,
      <<"F","i","t","z","p","a","t","r","i","c","k"," ","w","r","i","n","k","l","e","."," ","F","i","t","z","p","a","t","r","i","c","k"," ","V">>,
      <<"A","g","e"," ","1","8","."," ","E","x","c","l","u","s","i","o","n",":"," ","F","i","t","z","p","a","t","r","i","c","k"," ","V","I">> }

NoGeo == [k \in {} |-> ""]
GeoPoint1 == [lat |-> "40.0", lon |-> "-75.0"]

Location(country, facility, geoPoint) ==
    [country |-> country, facility |-> facility, city |-> <<"E","r","i","e">>,
     state |-> <<"P","A">>, zip |-> <<"1","9","1","0","4">>, geoPoint |-> geoPoint]

LocationLists ==
    { << Location("Canada", <<"M","a","y","o"," ","C","l","i","n","i","c">>, GeoPoint1),
         Location("United States", <<"T","r","i","a","l"," ","S","i","t","e">>, NoGeo) >>,
      << Location("United States", <<"M","a","i","n"," ","C","l","i","n","i","c">>, GeoPoint1),
         Location("Canada", <<"M","a","y","o"," ","C","l","i","n","i","c">>, GeoPoint1),
         Location("United States", <<"M","a","y","o"," ","C","l","i","n","i","c">>, GeoPoint1) >> }

RaceLists ==
    { << >>,
      << [title |-> <<"W","h","i","t","e">>, measurements |-> << <<"1","2">>, <<"3">> >>] >>,
      << [title |-> <<"B","l","a","c","k"," ","o","r"," ","A","f","r","i","c","a","n"," ","A","m","e","r","i","c","a","n">>, measurements |-> << <<"4">> >>] >> }

StudyInputs ==
    [eligibilityCriteria : CriteriaTexts, locations : LocationLists,
     race_categories : RaceLists, overallStatus : {"RECRUITING"},
     lastUpdateDate : { <<"2","0","2","4","-","0","5","-","0","1">> },
     enrollment : {[count |-> 30, type |-> "ACTUAL"]}]

\* the study at position i carries its own identifier
WithId(inputs) ==
    [i \in 1..Len(inputs) |->
        Update(inputs[i], [nctId |-> "NCT" \o ToString(i)])]

(***************************************************************************)
(* The records extract_study_details is run on: 1..MaxLocations locations  *)
(***************************************************************************)
MaxLocations == 2

LatOnly == [lat |-> "40.0"]
LonOnly == [lon |-> "-75.0"]

ExtractLocations ==
    { Location(country, <<"M","a","i","n"," ","C","l","i","n","i","c">>, geoPoint) :
        country \in {"United States", "Canada"},
        geoPoint \in {NoGeo, GeoPoint1, LatOnly, LonOnly} }

NoValue == [k \in {} |-> <<>>]

White == <<"W","h","i","t","e">>
Black == <<"B","l","a","c","k"," ","o","r"," ","A","f","r","i","c","a","n"," ","A","m","e","r","i","c","a","n">>

RaceClassLists ==
    { << >>,
      << << >> >>,
      << << [title |-> White, measurements |-> << [value |-> <<"1","2">>], [value |-> <<"3">>] >>] >> >>,
      << << [title |-> White, measurements |-> << [value |-> <<"1","2">>], [value |-> <<"N","A">>] >>] >> >>,
      << << [title |-> White, measurements |-> << [value |-> <<"1","2">>], NoValue >>] >> >>,
      << << [title |-> <<>>, measurements |-> << [value |-> <<"N","A">>] >>],
            [title |-> Black, measurements |-> << [value |-> <<"4">>] >>] >>,
         << [title |-> White, measurements |-> << [value |-> <<"9">>] >>] >> >> }

RecordInputs ==
    { [locations |-> locations, race_classes |-> race_classes,
       overallStatus |-> "RECRUITING",
       lastUpdateDate |-> <<"2","0","2","4","-","0","5","-","0","1">>,
       enrollment |-> [count |-> 30, type |-> "ACTUAL"]] :
        locations \in UNION {[1..n -> ExtractLocations] : n \in 1..MaxLocations},
        race_classes \in RaceClassLists }

(***************************************************************************)
(* What main is run on: the two files present or absent, and lists of      *)
(* 0..MaxMainStudies studies in the raw JSON file and in the registry's    *)
(* answer                                                                  *)
(***************************************************************************)
MaxMainStudies == 2

File(content) == [exists |-> TRUE, content |-> content]

MainStudyInputs == {s \in StudyInputs : s.race_categories = <<>>}

StudyLists == UNION {[1..n -> MainStudyInputs] : n \in 0..MaxMainStudies}

\* the tables pd.read_csv can give for a final dataset left by an earlier run:
\* the header alone, or one geocoded row
StoredTables ==
    { <<>>,
      << [facility |-> <<"M","a","i","n"," ","C","l","i","n","i","c">>,
          city |-> <<"E","r","i","e">>, state |-> <<"P","A">>,
          zip |-> <<"1","9","1","0","4">>,
          latitude |-> Place1.lat, longitude |-> Place1.lng,
          search_query |-> SKIP, place_name |-> Place1.name] >> }

(***************************************************************************)
(* The criteria texts the segmenter is run on: MaxChunks chunks, each      *)
(* possibly empty, concatenated.                                           *)
(***************************************************************************)
MaxChunks == 4

Chunks ==
    { <<>>,
      <<"F","i","t","z","p","a","t","r","i","c","k">>,
      <<"E","x","c","l","u","s","i","o","n">>,
      <<".">>, <<"\n">>, <<" ">>, <<"i","v">> }

RECURSIVE Concat(_, _)
Concat(cs, n) == IF n = 0 THEN <<>> ELSE Concat(cs, n - 1) \o cs[n]

\* the keyword argument: the configured SEARCH_KEYWORD, and the same word
\* written with a capital
Keywords == { SEARCH_KEYWORD, <<"F","i","t","z","p","a","t","r","i","c","k">> }

(***************************************************************************)
(* The sentences the classifier is run on: MaxWords words, each possibly   *)
(* empty, joined by separators.  The empty separator glues two words into  *)
(* one ("i" "v" is "iv", "v" "i" "i" is "vii"); an empty word leaves its   *)
(* separators standing alone ("i to ").                                    *)
(***************************************************************************)
MaxWords == 3

Words ==
    { <<>>, <<"i">>, <<"v">>, <<"L">>, <<"3">>,
      <<"a","l","l">>, <<"m","a","n","y">>, <<"W","r","i","n","k","l","e">> }

Separators ==
    { <<>>, <<" ">>, <<"-">>, <<" ","t","o"," ">> }

\* ws[1] ss[1] ws[2] ss[2] ... ws[n]
RECURSIVE Glue(_, _, _)
Glue(ws, ss, n) ==
    IF n = 0 THEN <<>>
    ELSE IF n = 1 THEN ws[1]
    ELSE Glue(ws, ss, n - 1) \o ss[n - 1] \o ws[n]

(***************************************************************************)
(* Specifications.  Each one runs one operation of the pipeline on inputs  *)
(* drawn from the sets above; the variables of the other operations rest.  *)
(***************************************************************************)
NoScore == [extracted_score |-> "", Type_I |-> 0, Type_II |-> 0,
            Type_III |-> 0, Type_IV |-> 0, Type_V |-> 0, Type_VI |-> 0]

IdleClassify == sentence = <<>> /\ score_data = NoScore

IdleSegment ==
    eligibility_text = <<>> /\ keyword = SEARCH_KEYWORD /\ found_sentences = <<>>

EmptyCache == [q \in {} |-> CachedNone]

IdleGeo ==
    /\ df_to_geocode = <<>> /\ df = <<>> /\ rows_to_process = <<>> /\ pos = 0
    /\ query_cache = EmptyCache /\ gmaps_calls = <<>>

IdleAssemble ==
    /\ studies = <<>> /\ study_pos = 0 /\ all_facility_rows = <<>>
    /\ all_race_keys = {} /\ df_processed = <<>>

NoFile == [exists |-> FALSE, content |-> <<>>]

NoDetails ==
    [status |-> "", us_facilities |-> <<>>, enrollment |-> 0, enrollment_type |-> "",
     race_data |-> [k \in {} |-> 0], last_update_year |-> ""]

NoStudy ==
    [locations |-> <<>>, race_classes |-> <<>>, overallStatus |-> "",
     lastUpdateDate |-> <<>>, enrollment |-> [count |-> 0, type |-> ""]]

IdleExtract == study_record = NoStudy /\ returned_details = NoDetails

IdleWorkers ==
    /\ use_lock = FALSE /\ lock = 0
    /\ worker_pc = <<>> /\ worker_row = <<>> /\ worker_result = <<>>

IdleMain ==
    /\ raw_json = NoFile /\ final_csv = NoFile /\ map_html = NoFile
    /\ stage_log = <<>> /\ df_final = <<>>

IdleStandalone == geocoding_input = <<>>

IdleUsa == unparsed_csv = NoFile

IdleSide == IdleStandalone /\ IdleUsa

IdleOther == IdleExtract /\ IdleWorkers /\ IdleMain /\ IdleSide

\* --- one call of extract_and_standardize_scores
InitClassify ==
    /\ phase = "sentence"
    /\ \E ws \in [1..MaxWords -> Words], ss \in [1..(MaxWords - 1) -> Separators] :
          sentence = Glue(ws, ss, MaxWords)
    /\ score_data = NoScore
    /\ IdleSegment /\ IdleGeo /\ IdleAssemble /\ IdleOther

Classify ==
    /\ phase = "sentence"
    /\ score_data' = extract_and_standardize_scores(sentence)
    /\ phase' = "classified"
    /\ UNCHANGED <<sentence, segmentVars, geoVars, assembleVars, otherVars>>

NextClassify == Classify

SpecClassify == InitClassify /\ [][NextClassify]_vars

\* --- one call of parse_eligibility_criteria
InitSegment ==
    /\ phase = "text"
    /\ \E cs \in [1..MaxChunks -> Chunks] : eligibility_text = Concat(cs, MaxChunks)
    /\ keyword \in Keywords
    /\ found_sentences = <<>>
    /\ IdleClassify /\ IdleGeo /\ IdleAssemble /\ IdleOther

Parse ==
    /\ phase = "text"
    /\ found_sentences' = parse_eligibility_criteria(eligibility_text, keyword)
    /\ phase' = "parsed"
    /\ UNCHANGED <<eligibility_text, keyword, classifyVars, geoVars, assembleVars, otherVars>>

NextSegment == Parse

SpecSegment == InitSegment /\ [][NextSegment]_vars

\* --- one run of geocode_locations_with_places_api
InitGeo ==
    /\ phase = "table"
    /\ \E n \in 1..MaxRows : \E rows \in [1..n -> InputRows] :
          df_to_geocode = WithCoordinates(rows)
    /\ df = df_to_geocode
    /\ rows_to_process = <<>> /\ pos = 0
    /\ query_cache = EmptyCache /\ gmaps_calls = <<>>
    /\ IdleClassify /\ IdleSegment /\ IdleAssemble /\ IdleOther

\* everything before the loop: the queries, rows_to_process, place_name, the cache
Plan ==
    /\ phase = "table"
    /\ df' = Planned(df)
    /\ rows_to_process' = Workable(Planned(df))
    /\ pos' = 1
    /\ query_cache' = EmptyCache
    /\ phase' = "loop"
    /\ UNCHANGED <<df_to_geocode, gmaps_calls, classifyVars, segmentVars, assembleVars, otherVars>>

InLoop == phase = "loop" /\ pos <= Len(rows_to_process)

CurrentIndex == rows_to_process[pos]
CurrentQuery == df[CurrentIndex].search_query

\* one iteration, query in query_cache
CacheHit ==
    /\ InLoop
    /\ CurrentQuery \in DOMAIN query_cache
    /\ df' = WriteBack(df, CurrentIndex, query_cache[CurrentQuery])
    /\ pos' = pos + 1
    /\ UNCHANGED <<phase, df_to_geocode, rows_to_process, query_cache, gmaps_calls,
                   classifyVars, segmentVars, assembleVars, otherVars>>

\* one iteration, cache miss, gmaps.places returns candidates
CallReturnsResults ==
    /\ InLoop
    /\ CurrentQuery \notin DOMAIN query_cache
    /\ \E places \in CandidateLists :
          /\ query_cache' = CacheStore(query_cache, CurrentQuery, Response(places))
          /\ df' = WriteBack(df, CurrentIndex, Response(places))
    /\ gmaps_calls' = Append(gmaps_calls, CurrentQuery)
    /\ pos' = pos + 1
    /\ UNCHANGED <<phase, df_to_geocode, rows_to_process,
                   classifyVars, segmentVars, assembleVars, otherVars>>

\* one iteration, cache miss, gmaps.places returns an empty result set
CallReturnsNothing ==
    /\ InLoop
    /\ CurrentQuery \notin DOMAIN query_cache
    /\ query_cache' = CacheStore(query_cache, CurrentQuery, Response(<<>>))
    /\ df' = WriteBack(df, CurrentIndex, Response(<<>>))
    /\ gmaps_calls' = Append(gmaps_calls, CurrentQuery)
    /\ pos' = pos + 1
    /\ UNCHANGED <<phase, df_to_geocode, rows_to_process,
                   classifyVars, segmentVars, assembleVars, otherVars>>

\* the call made outside any try: the exception ends the run where it stands
CallRaises_Aborts ==
    /\ InLoop
    /\ CurrentQuery \notin DOMAIN query_cache
    /\ query_cache' = CacheFailure(query_cache, CurrentQuery)
    /\ gmaps_calls' = Append(gmaps_calls, CurrentQuery)
    /\ phase' = "aborted"
    /\ UNCHANGED <<pos, df_to_geocode, df, rows_to_process,
                   classifyVars, segmentVars, assembleVars, otherVars>>

\* one iteration, cache miss, gmaps.places raises: the except branch and continue
CallRaises ==
    /\ InLoop
    /\ CurrentQuery \notin DOMAIN query_cache
    /\ query_cache' = CacheFailure(query_cache, CurrentQuery)
    /\ gmaps_calls' = Append(gmaps_calls, CurrentQuery)
    /\ pos' = pos + 1
    /\ UNCHANGED <<phase, df_to_geocode, df, rows_to_process,
                   classifyVars, segmentVars, assembleVars, otherVars>>

\* the loop is exhausted: return df
ReturnTable ==
    /\ phase = "loop"
    /\ pos > Len(rows_to_process)
    /\ phase' = "geocoded"
    /\ UNCHANGED <<geoVars, classifyVars, segmentVars, assembleVars, otherVars>>

NextGeo ==
    \/ Plan
    \/ CacheHit
    \/ CallReturnsResults
    \/ CallReturnsNothing
    \/ CallRaises
    \/ ReturnTable

SpecGeo == InitGeo /\ [][NextGeo]_vars

\* the function is straight-line code around one for loop: a run that can take
\* a step takes it
SpecGeoFair == SpecGeo /\ WF_vars(NextGeo)

\* --- the same run on the tables that exercise the query planner
InitPlan ==
    /\ phase = "table"
    /\ \E n \in 1..MaxPlanRows : \E rows \in [1..n -> PlanInputRows] :
          df_to_geocode = WithCoordinates(rows)
    /\ df = df_to_geocode
    /\ rows_to_process = <<>> /\ pos = 0
    /\ query_cache = EmptyCache /\ gmaps_calls = <<>>
    /\ IdleClassify /\ IdleSegment /\ IdleAssemble /\ IdleOther

SpecPlan == InitPlan /\ [][NextGeo]_vars

\* --- the planner of geocode_locations_with_places_api and the script
\* construct_geoquery.py, each run once on the same table
InitCompare ==
    /\ phase = "table"
    /\ \E n \in 1..MaxCompareRows : \E rows \in [1..n -> CompareInputRows] :
          df_to_geocode = WithCoordinates(rows)
    /\ df = df_to_geocode
    /\ rows_to_process = <<>> /\ pos = 0
    /\ query_cache = EmptyCache /\ gmaps_calls = <<>>
    /\ IdleClassify /\ IdleSegment /\ IdleAssemble /\ IdleOther

\* one run of construct_geoquery.py
StandalonePlan ==
    /\ df_to_geocode # <<>>
    /\ geocoding_input = <<>>
    /\ geocoding_input' = StandalonePlanned(df_to_geocode)
    /\ UNCHANGED <<phase, geoVars, classifyVars, segmentVars, assembleVars,
                   extractVars, workerVars, mainVars, unparsed_csv>>

NextCompare == Plan \/ StandalonePlan

SpecCompare == InitCompare /\ [][NextCompare]_vars

\* --- the loop body of geocode_locations_with_places_api run by two workers.
\* A worker takes the next row of rows_to_process, tests  query in query_cache,
\* calls gmaps.places on a miss and stores what came back; each of these is a
\* step of its own.  With use_lock the test, the call and the store of one row
\* are done under one lock.
notWorkerVars == <<extractVars, mainVars, sideVars>>

InitWorkers ==
    /\ phase = "table"
    /\ \E n \in 1..MaxWorkerRows : \E rows \in [1..n -> WorkerInputRows] :
          df_to_geocode = WithCoordinates(rows)
    /\ df = df_to_geocode
    /\ rows_to_process = <<>> /\ pos = 0
    /\ query_cache = EmptyCache /\ gmaps_calls = <<>>
    /\ use_lock \in BOOLEAN
    /\ lock = 0
    /\ worker_pc = [w \in Workers |-> "take"]
    /\ worker_row = [w \in Workers |-> 0]
    /\ worker_result = [w \in Workers |-> CachedNone]
    /\ IdleClassify /\ IdleSegment /\ IdleAssemble
    /\ IdleExtract /\ IdleMain /\ IdleSide

WorkerQuery(w) == df[worker_row[w]].search_query

\* the lock after worker w asked for it: free or its own
Acquired(w) == IF use_lock THEN w ELSE lock
Released == IF use_lock THEN 0 ELSE lock
CanAcquire(w) == use_lock => lock = 0

\* for index in rows_to_process: the next row goes to worker w
WorkerTake(w) ==
    /\ phase = "loop"
    /\ worker_pc[w] = "take"
    /\ pos <= Len(rows_to_process)
    /\ worker_row' = [worker_row EXCEPT ![w] = rows_to_process[pos]]
    /\ pos' = pos + 1
    /\ worker_pc' = [worker_pc EXCEPT ![w] = "check"]
    /\ UNCHANGED <<phase, df_to_geocode, df, rows_to_process, query_cache, gmaps_calls,
                   use_lock, lock, worker_result,
                   classifyVars, segmentVars, assembleVars, notWorkerVars>>

\* if query in query_cache: result = query_cache[query], and the write-back
WorkerHit(w) ==
    /\ phase = "loop"
    /\ worker_pc[w] = "check"
    /\ CanAcquire(w)
    /\ WorkerQuery(w) \in DOMAIN query_cache
    /\ df' = WriteBack(df, worker_row[w], query_cache[WorkerQuery(w)])
    /\ worker_pc' = [worker_pc EXCEPT ![w] = "take"]
    /\ UNCHANGED <<phase, df_to_geocode, rows_to_process, pos, query_cache, gmaps_calls,
                   use_lock, lock, worker_row, worker_result,
                   classifyVars, segmentVars, assembleVars, notWorkerVars>>

\* else: the worker goes on to the call
WorkerMiss(w) ==
    /\ phase = "loop"
    /\ worker_pc[w] = "check"
    /\ CanAcquire(w)
    /\ WorkerQuery(w) \notin DOMAIN query_cache
    /\ lock' = Acquired(w)
    /\ worker_pc' = [worker_pc EXCEPT ![w] = "call"]
    /\ UNCHANGED <<phase, geoVars, use_lock, worker_row, worker_result,
                   classifyVars, segmentVars, assembleVars, notWorkerVars>>

\* result = gmaps.places(query=query), returning or raising
WorkerCall(w) ==
    /\ phase = "loop"
    /\ worker_pc[w] = "call"
    /\ gmaps_calls' = Append(gmaps_calls, WorkerQuery(w))
    /\ \E outcome \in CallOutcomes :
          worker_result' = [worker_result EXCEPT ![w] = outcome]
    /\ worker_pc' = [worker_pc EXCEPT ![w] = "store"]
    /\ UNCHANGED <<phase, df_to_geocode, df, rows_to_process, pos, query_cache,
                   use_lock, lock, worker_row,
                   classifyVars, segmentVars, assembleVars, notWorkerVars>>

\* query_cache[query] = result and the write-back; after a raise
\* query_cache[query] = None and continue
WorkerStore(w) ==
    /\ phase = "loop"
    /\ worker_pc[w] = "store"
    /\ IF worker_result[w].none
       THEN /\ query_cache' = CacheFailure(query_cache, WorkerQuery(w))
            /\ df' = df
       ELSE /\ query_cache' = CacheStore(query_cache, WorkerQuery(w), worker_result[w])
            /\ df' = WriteBack(df, worker_row[w], worker_result[w])
    /\ lock' = Released
    /\ worker_pc' = [worker_pc EXCEPT ![w] = "take"]
    /\ UNCHANGED <<phase, df_to_geocode, rows_to_process, pos, gmaps_calls,
                   use_lock, worker_row, worker_result,
                   classifyVars, segmentVars, assembleVars, notWorkerVars>>

\* rows_to_process is exhausted and both workers are through: return df
WorkersReturn ==
    /\ phase = "loop"
    /\ pos > Len(rows_to_process)
    /\ \A w \in Workers : worker_pc[w] = "take"
    /\ phase' = "geocoded"
    /\ UNCHANGED <<geoVars, classifyVars, segmentVars, assembleVars, otherVars>>

NextWorkers ==
    \/ Plan
    \/ \E w \in Workers : WorkerTake(w)
    \/ \E w \in Workers : WorkerHit(w)
    \/ \E w \in Workers : WorkerMiss(w)
    \/ \E w \in Workers : WorkerCall(w)
    \/ \E w \in Workers : WorkerStore(w)
    \/ WorkersReturn

SpecWorkers == InitWorkers /\ [][NextWorkers]_vars

\* --- one call of extract_study_details
InitExtract ==
    /\ phase = "record"
    /\ study_record \in RecordInputs
    /\ returned_details = NoDetails
    /\ IdleClassify /\ IdleSegment /\ IdleGeo /\ IdleAssemble
    /\ IdleWorkers /\ IdleMain /\ IdleSide

\* the call returns details
ExtractReturns ==
    /\ phase = "record"
    /\ ~ExtractionRaises(study_record)
    /\ returned_details' = extract_study_details(Flattened(study_record), COUNTRY_TO_ISOLATE)
    /\ phase' = "extracted"
    /\ UNCHANGED <<study_record, classifyVars, segmentVars, geoVars, assembleVars,
                   workerVars, mainVars, sideVars>>

\* the call ends in an exception that nothing in the function catches
ExtractRaises ==
    /\ phase = "record"
    /\ ExtractionRaises(study_record)
    /\ phase' = "raised"
    /\ UNCHANGED <<extractVars, classifyVars, segmentVars, geoVars, assembleVars,
                   workerVars, mainVars, sideVars>>

NextExtract == ExtractReturns \/ ExtractRaises

SpecExtract == InitExtract /\ [][NextExtract]_vars

\* --- one call of process_raw_data
InitAssemble ==
    /\ phase = "studies"
    /\ \E n \in 1..MaxStudies : \E inputs \in [1..n -> StudyInputs] :
          studies = WithId(inputs)
    /\ study_pos = 1
    /\ all_facility_rows = <<>>
    /\ all_race_keys = {}
    /\ df_processed = <<>>
    /\ IdleClassify /\ IdleSegment /\ IdleGeo /\ IdleOther

\* one iteration of  for study in studies
ProcessStudy ==
    /\ phase = "studies"
    /\ study_pos <= Len(studies)
    /\ all_race_keys' = all_race_keys \cup StudyRaceKeys(studies[study_pos])
    /\ all_facility_rows' = all_facility_rows \o StudyRows(studies[study_pos])
    /\ study_pos' = study_pos + 1
    /\ UNCHANGED <<phase, studies, df_processed, classifyVars, segmentVars, geoVars, otherVars>>

\* the loop is exhausted: build the table, drop the unparsed rows, return
ReturnProcessed ==
    /\ phase = "studies"
    /\ study_pos > Len(studies)
    /\ df_processed' = BuildTable(all_facility_rows, all_race_keys)
    /\ phase' = "processed"
    /\ UNCHANGED <<studies, study_pos, all_facility_rows, all_race_keys,
                   classifyVars, segmentVars, geoVars, otherVars>>

NextAssemble == ProcessStudy \/ ReturnProcessed

SpecAssemble == InitAssemble /\ [][NextAssemble]_vars

\* --- one run of main (map_creation).  stage_log records the calls main makes:
\* pd.read_csv, fetch_clinical_trials_data, process_raw_data,
\* geocode_locations_with_places_api, to_csv (returned or raised) and
\* create_interactive_map_with_sidebar.  The content of a file is the table or
\* the study list a reader gets from it; no run both writes and reads a file.
InitMain ==
    /\ phase = "main"
    /\ final_csv \in {NoFile} \cup {File(t) : t \in StoredTables}
    /\ raw_json \in {NoFile} \cup {File(l) : l \in StudyLists}
    /\ map_html = NoFile
    /\ stage_log = <<>> /\ df_final = <<>>
    /\ IdleClassify /\ IdleSegment /\ IdleGeo /\ IdleAssemble
    /\ IdleExtract /\ IdleWorkers /\ IdleSide

notMainVars == <<classifyVars, segmentVars, extractVars, workerVars, sideVars>>

\* if os.path.exists(FINAL_MASTER_CSV): df_final = pd.read_csv(FINAL_MASTER_CSV)
MainReadCsv ==
    /\ phase = "main"
    /\ final_csv.exists
    /\ df_final' = final_csv.content
    /\ stage_log' = Append(stage_log, "read_csv")
    /\ phase' = "final"
    /\ UNCHANGED <<raw_json, final_csv, map_html, geoVars, assembleVars, notMainVars>>

\* if not os.path.exists(RAW_JSON_FILENAME): fetch_clinical_trials_data(...),
\* which writes the file only if the registry answered with studies
MainFetch ==
    /\ phase = "main"
    /\ ~final_csv.exists
    /\ ~raw_json.exists
    /\ \E answer \in StudyLists :
          raw_json' = IF answer # <<>> THEN File(answer) ELSE raw_json
    /\ stage_log' = Append(stage_log, "fetch")
    /\ phase' = "load"
    /\ UNCHANGED <<final_csv, map_html, df_final, geoVars, assembleVars, notMainVars>>

\* the raw JSON file is there: no fetch
MainSkipFetch ==
    /\ phase = "main"
    /\ ~final_csv.exists
    /\ raw_json.exists
    /\ phase' = "load"
    /\ UNCHANGED <<mainVars, geoVars, assembleVars, notMainVars>>

\* studies = json.load(f).get('studies', []) and the call of process_raw_data
MainLoad ==
    /\ phase = "load"
    /\ raw_json.exists
    /\ studies' = WithId(raw_json.content)
    /\ study_pos' = 1
    /\ all_facility_rows' = <<>> /\ all_race_keys' = {} /\ df_processed' = <<>>
    /\ stage_log' = Append(stage_log, "process")
    /\ phase' = "studies"
    /\ UNCHANGED <<raw_json, final_csv, map_html, df_final, geoVars, notMainVars>>

\* except (FileNotFoundError, json.JSONDecodeError): return
MainLoadFails ==
    /\ phase = "load"
    /\ ~raw_json.exists
    /\ phase' = "done"
    /\ UNCHANGED <<mainVars, geoVars, assembleVars, notMainVars>>

\* if df_processed.empty: return
MainNoData ==
    /\ phase = "processed"
    /\ df_processed = <<>>
    /\ phase' = "done"
    /\ UNCHANGED <<mainVars, geoVars, assembleVars, notMainVars>>

\* the columns the planner adds to its copy of the table
ForGeocoding(table) ==
    [k \in 1..Len(table) |-> Update(table[k], [search_query |-> <<>>, place_name |-> ""])]

\* df_final = geocode_locations_with_places_api(df_processed): the call, up to
\* df = df_to_geocode.copy()
MainGeocode ==
    /\ phase = "processed"
    /\ df_processed # <<>>
    /\ df_to_geocode' = ForGeocoding(df_processed)
    /\ df' = ForGeocoding(df_processed)
    /\ stage_log' = Append(stage_log, "geocode")
    /\ phase' = "table"
    /\ UNCHANGED <<raw_json, final_csv, map_html, df_final,
                   rows_to_process, pos, query_cache, gmaps_calls,
                   assembleVars, notMainVars>>

\* the same call with no GOOGLE_MAPS_API_KEY: ValueError, caught nowhere
MainGeocodeRaises ==
    /\ phase = "processed"
    /\ df_processed # <<>>
    /\ stage_log' = Append(stage_log, "geocode")
    /\ phase' = "raised"
    /\ UNCHANGED <<raw_json, final_csv, map_html, df_final, geoVars,
                   assembleVars, notMainVars>>

\* df_final.to_csv(FINAL_MASTER_CSV) returns
MainSave ==
    /\ phase = "geocoded"
    /\ df_final' = df
    /\ final_csv' = File(df)
    /\ stage_log' = Append(stage_log, "to_csv")
    /\ phase' = "final"
    /\ UNCHANGED <<raw_json, map_html, geoVars, assembleVars, notMainVars>>

\* the except branch without its return: main goes on to the map
MainSaveFails_GoesOn ==
    /\ phase = "geocoded"
    /\ df_final' = df
    /\ stage_log' = Append(stage_log, "to_csv raised")
    /\ phase' = "final"
    /\ UNCHANGED <<raw_json, final_csv, map_html, geoVars, assembleVars, notMainVars>>

\* df_final.to_csv(FINAL_MASTER_CSV) raises IOError: return
MainSaveFails ==
    /\ phase = "geocoded"
    /\ df_final' = df
    /\ stage_log' = Append(stage_log, "to_csv raised")
    /\ phase' = "done"
    /\ UNCHANGED <<raw_json, final_csv, map_html, geoVars, assembleVars, notMainVars>>

\* create_interactive_map_with_sidebar(df_final.to_dict('records'), MAP_OUTPUT_HTML)
MainMap ==
    /\ phase = "final"
    /\ df_final # <<>>
    /\ map_html' = File(df_final)
    /\ stage_log' = Append(stage_log, "map")
    /\ phase' = "done"
    /\ UNCHANGED <<raw_json, final_csv, df_final, geoVars, assembleVars, notMainVars>>

\* if df_final.empty: return
MainNoMap ==
    /\ phase = "final"
    /\ df_final = <<>>
    /\ phase' = "done"
    /\ UNCHANGED <<mainVars, geoVars, assembleVars, notMainVars>>

NextMain ==
    \/ MainReadCsv
    \/ MainFetch
    \/ MainSkipFetch
    \/ MainLoad
    \/ MainLoadFails
    \/ NextAssemble
    \/ MainNoData
    \/ MainGeocode
    \/ MainGeocodeRaises
    \/ NextGeo
    \/ MainSave
    \/ MainSaveFails
    \/ MainMap
    \/ MainNoMap

SpecMain == InitMain /\ [][NextMain]_vars

\* --- one run of main (usa_map): fetch, load, the loop, the table, the final
\* CSV and the map; no geocoding
InitUsaMain ==
    /\ phase = "usa_main"
    /\ final_csv \in {NoFile} \cup {File(t) : t \in StoredTables}
    /\ raw_json \in {NoFile} \cup {File(l) : l \in StudyLists}
    /\ map_html = NoFile /\ unparsed_csv = NoFile
    /\ stage_log = <<>> /\ df_final = <<>>
    /\ IdleClassify /\ IdleSegment /\ IdleGeo /\ IdleAssemble
    /\ IdleExtract /\ IdleWorkers /\ IdleStandalone

notUsaVars ==
    <<classifyVars, segmentVars, geoVars, extractVars, workerVars, geocoding_input>>

\* fetch_clinical_trials_data(...), whatever files exist
UsaFetch ==
    /\ phase = "usa_main"
    /\ \E answer \in StudyLists :
          raw_json' = IF answer # <<>> THEN File(answer) ELSE raw_json
    /\ stage_log' = Append(stage_log, "fetch")
    /\ phase' = "usa_load"
    /\ UNCHANGED <<final_csv, map_html, df_final, unparsed_csv, assembleVars, notUsaVars>>

\* studies = json.load(f).get('studies', []); all_race_keys = set(FILTERS...)
UsaLoad ==
    /\ phase = "usa_load"
    /\ raw_json.exists
    /\ studies' = WithId(raw_json.content)
    /\ study_pos' = 1
    /\ all_facility_rows' = <<>>
    /\ all_race_keys' = FilterRaceKeys
    /\ phase' = "usa_studies"
    /\ UNCHANGED <<mainVars, unparsed_csv, df_processed, notUsaVars>>

\* except (FileNotFoundError, json.JSONDecodeError): return
UsaLoadFails ==
    /\ phase = "usa_load"
    /\ ~raw_json.exists
    /\ phase' = "done"
    /\ UNCHANGED <<mainVars, unparsed_csv, assembleVars, notUsaVars>>

\* one iteration of  for study in studies
UsaProcessStudy ==
    /\ phase = "usa_studies"
    /\ study_pos <= Len(studies)
    /\ all_race_keys' = all_race_keys \cup StudyRaceKeys(studies[study_pos])
    /\ all_facility_rows' = all_facility_rows \o UsaStudyRows(studies[study_pos])
    /\ study_pos' = study_pos + 1
    /\ UNCHANGED <<phase, studies, df_processed, mainVars, unparsed_csv, notUsaVars>>

\* if not all_facility_rows: return
UsaNoRows ==
    /\ phase = "usa_studies"
    /\ study_pos > Len(studies)
    /\ all_facility_rows = <<>>
    /\ phase' = "done"
    /\ UNCHANGED <<mainVars, unparsed_csv, assembleVars, notUsaVars>>

\* the table is built, the unparsed rows are reported to unparsed_studies.csv
\* and dropped
UsaBuild ==
    /\ phase = "usa_studies"
    /\ study_pos > Len(studies)
    /\ all_facility_rows # <<>>
    /\ LET table == UsaFilled(all_facility_rows, all_race_keys)
       IN /\ df_processed' = table
          /\ unparsed_csv' = IF Unparsed(table) # <<>> THEN File(UnparsedReport(table))
                             ELSE unparsed_csv
          /\ df_final' = UsaTable(table)
    /\ phase' = "usa_table"
    /\ UNCHANGED <<raw_json, final_csv, map_html, stage_log,
                   studies, study_pos, all_facility_rows, all_race_keys, notUsaVars>>

\* if df.empty: return
UsaAllUnparsed ==
    /\ phase = "usa_table"
    /\ df_final = <<>>
    /\ phase' = "done"
    /\ UNCHANGED <<mainVars, unparsed_csv, assembleVars, notUsaVars>>

\* df.to_csv(FINAL_OUTPUT_CSV) returns
UsaSave ==
    /\ phase = "usa_table"
    /\ df_final # <<>>
    /\ final_csv' = File(df_final)
    /\ stage_log' = Append(stage_log, "to_csv")
    /\ phase' = "usa_map"
    /\ UNCHANGED <<raw_json, map_html, df_final, unparsed_csv, assembleVars, notUsaVars>>

\* df.to_csv(FINAL_OUTPUT_CSV) raises IOError: a message, and main goes on
UsaSaveFails ==
    /\ phase = "usa_table"
    /\ df_final # <<>>
    /\ stage_log' = Append(stage_log, "to_csv raised")
    /\ phase' = "usa_map"
    /\ UNCHANGED <<raw_json, final_csv, map_html, df_final, unparsed_csv,
                   assembleVars, notUsaVars>>

\* create_interactive_map_with_sidebar(df.to_dict('records'), MAP_OUTPUT_HTML)
UsaMap ==
    /\ phase = "usa_map"
    /\ map_html' = File(df_final)
    /\ stage_log' = Append(stage_log, "map")
    /\ phase' = "done"
    /\ UNCHANGED <<raw_json, final_csv, df_final, unparsed_csv, assembleVars, notUsaVars>>

NextUsaMain ==
    \/ UsaFetch
    \/ UsaLoad
    \/ UsaLoadFails
    \/ UsaProcessStudy
    \/ UsaNoRows
    \/ UsaBuild
    \/ UsaAllUnparsed
    \/ UsaSave
    \/ UsaSaveFails
    \/ UsaMap

SpecUsaMain == InitUsaMain /\ [][NextUsaMain]_vars

(***************************************************************************)
(* Properties of the classifier (checked under SpecClassify)               *)
(***************************************************************************)
Classified == phase = "classified"

\* the skin types 1..6 whose flag is 1 in a classification
FlagSet(r) == {n \in 1..6 : r[TypeKey(Romans[n])] = 1}

\* the numeral tokens and the skin type each names
NumeralValue ==
    [i |-> 1, ii |-> 2, iii |-> 3, iv |-> 4, v |-> 5, vi |-> 6, l |-> 1]
    @@ [d \in {"1","2","3","4","5","6"} |-> CHOOSE n \in 1..6 : ToString(n) = d]

ValueOf(tok) == NumeralValue[Str(Lower(tok))]

\* the whole words of a text: the maximal runs of word characters
RECURSIVE RunEnd(_, _)
RunEnd(text, k) == IF WordAt(text, k + 1) THEN RunEnd(text, k + 1) ELSE k

WordSpans(text) ==
    {<<a, RunEnd(text, a)>> :
        a \in {k \in 1..Len(text) : WordAt(text, k) /\ ~WordAt(text, k - 1)}}

\* those whole words that are numeral tokens
NumeralSpans(text) ==
    {sp \in WordSpans(text) :
        Str(Lower(SubSeq(text, sp[1], sp[2]))) \in DOMAIN NumeralValue}

NamedTypes(text) ==
    {ValueOf(SubSeq(text, sp[1], sp[2])) : sp \in NumeralSpans(text)}

\* the types in the order of their first appearance in the text
RECURSIVE FirstAppearance(_, _, _)
FirstAppearance(text, k, seen) ==
    IF k > Len(text) THEN <<>>
    ELSE IF \E sp \in NumeralSpans(text) : sp[1] = k
    THEN LET sp == CHOOSE q \in NumeralSpans(text) : q[1] = k
             n == ValueOf(SubSeq(text, sp[1], sp[2]))
         IN IF n \in seen THEN FirstAppearance(text, k + 1, seen)
            ELSE <<n>> \o FirstAppearance(text, k + 1, seen \cup {n})
    ELSE FirstAppearance(text, k + 1, seen)

\* the types of a set in ascending order
Ascending(S) == SelectSeq(<<1, 2, 3, 4, 5, 6>>, LAMBDA n : n \in S)

\* the Roman numerals of a sequence of types, comma-joined
RomanList(ns) == Join([k \in 1..Len(ns) |-> Romans[ns[k]]])

NoVetoNoAll ==
    /\ ~Contains(Lower(sentence), wrinkle)
    /\ ~Contains(Lower(sentence), all)
    /\ ~Contains(Lower(sentence), any)

FirstRange == range_match(Lower(sentence))

\* C3: a sentence containing 'wrinkle' in any letter case is classified
\* 'Not a Skin Type Score' with all six flags 0, whatever else it contains.
C3_VetoWins ==
    (Classified /\ Contains(Lower(sentence), wrinkle)) =>
        /\ score_data.extracted_score = "Not a Skin Type Score"
        /\ FlagSet(score_data) = {}

\* a vetoed sentence that also holds 'all' and a numeral
C3_Witness ==
    /\ Classified
    /\ Contains(sentence, <<"W","r","i","n","k","l","e">>)
    /\ Contains(Lower(sentence), all)
    /\ NumeralSpans(sentence) # {}
    /\ score_data.extracted_score = "Not a Skin Type Score"

\* C4: a sentence containing 'all' or 'any' and not 'wrinkle' gets all six
\* flags and the label 'All', whatever numerals or ranges it also contains.
C4_AllWins ==
    (/\ Classified
     /\ Contains(Lower(sentence), all) \/ Contains(Lower(sentence), any)
     /\ ~Contains(Lower(sentence), wrinkle)) =>
        /\ score_data.extracted_score = "All"
        /\ FlagSet(score_data) = 1..6

\* 'any' together with a range the numeral rules would have parsed
C4_Witness ==
    /\ Classified
    /\ Contains(Lower(sentence), any)
    /\ ~Contains(Lower(sentence), all)
    /\ FirstRange.found
    /\ score_data.extracted_score = "All"

\* C5: with no veto term and no 'all'/'any', a first range match start < end
\* sets exactly the flags of start..end and the label '<startRoman>-<endRoman>';
\* the alias 'L' counts as I.
C5_RangeFlagsAndLabel ==
    LET m == FirstRange IN
    (Classified /\ NoVetoNoAll /\ m.found /\ ValueOf(m.g1) < ValueOf(m.g2)) =>
        /\ FlagSet(score_data) = ValueOf(m.g1)..ValueOf(m.g2)
        /\ score_data.extracted_score =
              Romans[ValueOf(m.g1)] \o "-" \o Romans[ValueOf(m.g2)]

\* 'L to v': the alias starts the range and is printed back as I
C5_Witness ==
    /\ Classified /\ NoVetoNoAll /\ FirstRange.found
    /\ FirstRange.g1 = <<"l">>
    /\ FirstRange.g2 = <<"v">>
    /\ score_data.extracted_score = "I-V"
    /\ FlagSet(score_data) = 1..5

\* C6: when the first range match has start >= end, no flag is set and the
\* label is 'Not Specified'; the enumeration is not run, whatever other
\* numerals or later ranges the sentence holds.
C6_DiscardedRange ==
    LET m == FirstRange IN
    (Classified /\ NoVetoNoAll /\ m.found /\ ValueOf(m.g1) >= ValueOf(m.g2)) =>
        /\ FlagSet(score_data) = {}
        /\ score_data.extracted_score = "Not Specified"

\* a discarded range followed by a third numeral the enumeration would find
C6_Witness ==
    /\ Classified /\ NoVetoNoAll /\ FirstRange.found
    /\ LET m == FirstRange IN ValueOf(m.g1) > ValueOf(m.g2)
    /\ Cardinality(NumeralSpans(sentence)) = 3
    /\ score_data.extracted_score = "Not Specified"

\* C7: with no veto term, no 'all'/'any' and no range match, the flags set
\* are exactly the types named by the whole-word numeral tokens; with no
\* numeral token no flag is set and the label is 'Not Specified'.
C7_EnumerationFlags ==
    (Classified /\ NoVetoNoAll /\ ~FirstRange.found) =>
        /\ FlagSet(score_data) = NamedTypes(sentence)
        /\ NamedTypes(sentence) = {} => score_data.extracted_score = "Not Specified"

\* three numeral tokens, two of them naming type I ('i' and 'L')
C7_Witness ==
    /\ Classified /\ NoVetoNoAll /\ ~FirstRange.found
    /\ Cardinality(NumeralSpans(sentence)) = 3
    /\ \E sp \in NumeralSpans(sentence) : SubSeq(sentence, sp[1], sp[2]) = <<"L">>
    /\ \E sp \in NumeralSpans(sentence) : SubSeq(sentence, sp[1], sp[2]) = <<"i">>
    /\ FlagSet(score_data) = {1, 3}

\* C8 as stated: on the enumeration path the label lists the Roman numerals in
\* the order of their first appearance in the sentence.
C8_LabelInAppearanceOrder ==
    (Classified /\ NoVetoNoAll /\ ~FirstRange.found /\ NamedTypes(sentence) # {}) =>
        score_data.extracted_score = RomanList(FirstAppearance(sentence, 1, {}))

\* C8 amended: on the enumeration path the label lists the Roman numerals,
\* deduplicated, in ascending numeric order, comma-joined.
C8_LabelInNumericOrder ==
    (Classified /\ NoVetoNoAll /\ ~FirstRange.found /\ NamedTypes(sentence) # {}) =>
        score_data.extracted_score = RomanList(Ascending(NamedTypes(sentence)))

\* types named in the order v, 3, i: the label reads I, III, V
C8_Witness ==
    /\ Classified /\ NoVetoNoAll /\ ~FirstRange.found
    /\ FirstAppearance(sentence, 1, {}) = <<5, 3, 1>>
    /\ score_data.extracted_score = "I, III, V"

\* C9 as stated: the flag set is empty if and only if the label is
\* 'Not Specified'.
C9_EmptyIffNotSpecified ==
    Classified =>
        (FlagSet(score_data) = {} <=> score_data.extracted_score = "Not Specified")

\* C9 amended: the flag set is empty if and only if the label is
\* 'Not Specified' or 'Not a Skin Type Score'.
C9_EmptyIffNoScore ==
    Classified =>
        (FlagSet(score_data) = {} <=>
            score_data.extracted_score \in {"Not Specified", "Not a Skin Type Score"})

\* the vetoed classification: no flag, and a label other than 'Not Specified'
C9_Witness ==
    /\ Classified
    /\ FlagSet(score_data) = {}
    /\ score_data.extracted_score = "Not a Skin Type Score"
    /\ NumeralSpans(sentence) # {}

\* a word occurs in a text as a word of its own, with a word boundary on
\* either side
HasWholeWord(text, word) ==
    \E p \in 0..(Len(text) - Len(word)) :
        LitAt(text, p, word) /\ WordBoundary(text, p) /\ WordBoundary(text, p + Len(word))

\* C21: a sentence without the veto term in which 'all' and 'any' occur only
\* inside longer words, never as words, is not labelled 'All': it gets what
\* the numeral rules (range, then enumeration) give.
C21_AllOnlyAsWord ==
    (/\ Classified
     /\ ~Contains(Lower(sentence), wrinkle)
     /\ ~HasWholeWord(Lower(sentence), all)
     /\ ~HasWholeWord(Lower(sentence), any))
        => /\ score_data.extracted_score # "All"
           /\ score_data = NumeralRules(InitialResult, Lower(sentence))

(***************************************************************************)
(* Properties of the segmenter (checked under SpecSegment)                 *)
(***************************************************************************)
Parsed == phase = "parsed"

\* the offset of the first occurrence of the marker, in any letter case; -1 if none
RECURSIVE FirstMarkerFrom(_, _)
FirstMarkerFrom(text, p) ==
    IF p + Len(exclusion) > Len(text) THEN -1
    ELSE IF LitAtIgnoreCase(text, p, exclusion) THEN p
    ELSE FirstMarkerFrom(text, p + 1)

BeforeMarker(text) ==
    LET p == FirstMarkerFrom(text, 0) IN
    IF p = -1 THEN text ELSE SubSeq(text, 1, p)

AfterMarker(text) ==
    LET p == FirstMarkerFrom(text, 0) IN
    IF p = -1 THEN <<>> ELSE SubSeq(text, p + Len(exclusion) + 1, Len(text))

\* C10: the result lists every keyword-bearing sentence before the first
\* 'exclusion' marker (the whole text when there is none) with is_exclusion
\* false, then every one after the marker with is_exclusion true, each group
\* in document order; an empty text yields the empty list.
C10_InclusionThenExclusion ==
    Parsed =>
        /\ found_sentences =
              SentencesOfPart(BeforeMarker(eligibility_text), keyword, FALSE)
              \o SentencesOfPart(AfterMarker(eligibility_text), keyword, TRUE)
        /\ eligibility_text = <<>> => found_sentences = <<>>

\* C19: the text is split only at the first 'exclusion': every sentence
\* after it that the keyword test retains, also one that follows a second or
\* later 'exclusion', is in the result with is_exclusion true.
C19_SplitAtFirstMarkerOnly ==
    Parsed =>
        LET after == SentencesOfPart(AfterMarker(eligibility_text), keyword, TRUE)
        IN \A k \in 1..Len(after) :
              \E n \in 1..Len(found_sentences) : found_sentences[n] = after[k]

\* the sentences of a segment that the documented rule retains: trimmed text
\* not empty, keyword present when letter case is ignored on both sides
RetainedByRule(segment, kw) ==
    LET pieces == SplitOnChars(segment, {".", "\n"}, 0, 0)
        kept == SelectSeq(pieces,
                    LAMBDA piece : /\ Strip(piece) # <<>>
                                   /\ Contains(Lower(piece), Lower(kw)))
    IN [k \in 1..Len(kept) |-> Strip(kept[k])]

\* the sentences of the result that carry a given is_exclusion mark, in order
FoundWith(is_exclusion) ==
    LET kept == SelectSeq(found_sentences, LAMBDA f : f.is_exclusion = is_exclusion)
    IN [k \in 1..Len(kept) |-> kept[k].sentence]

\* C20: a sentence is retained if and only if its trimmed text is not empty
\* and the keyword occurs in it when letter case is ignored, whatever the
\* letter case of the sentence and of the keyword argument: stated of the
\* inclusion segment, and of the exclusion segment of a text with a single
\* 'exclusion'.
C20_RetainedIffKeywordAnyCase ==
    Parsed =>
        LET after == AfterMarker(eligibility_text) IN
        /\ FoundWith(FALSE) = RetainedByRule(BeforeMarker(eligibility_text), keyword)
        /\ FirstMarkerFrom(after, 0) = -1 =>
              FoundWith(TRUE) = RetainedByRule(after, keyword)

(***************************************************************************)
(* Properties of the geocoder (checked under SpecGeo)                      *)
(***************************************************************************)
Geocoded == phase = "geocoded"

\* how many times gmaps.places was called with a query
CallsFor(query) == Cardinality({k \in 1..Len(gmaps_calls) : gmaps_calls[k] = query})

\* the rows of the table that carry a query
RowsFor(query) == {i \in 1..Len(df) : df[i].search_query = query}

\* C1: in one run the external lookup is called exactly once for every
\* distinct search query, however many rows share it and whether the call
\* returned candidates, nothing, or raised; never twice at any point.
C1_OneCallPerQuery ==
    /\ \A k \in 1..Len(gmaps_calls) : CallsFor(gmaps_calls[k]) = 1
    /\ Geocoded =>
          \A i \in 1..Len(df) :
              df[i].search_query # SKIP => CallsFor(df[i].search_query) = 1

\* a finished run in which two rows shared a query whose only call raised
C1_Witness ==
    /\ Geocoded
    /\ \E q \in DOMAIN query_cache :
          /\ query_cache[q].none
          /\ Cardinality(RowsFor(q)) >= 2
          /\ CallsFor(q) = 1

\* some external call of the run has raised
Failed == \E q \in DOMAIN query_cache : query_cache[q].none

\* the loop has gone through all of rows_to_process and the table is whole
AllProcessed ==
    /\ pos = Len(rows_to_process) + 1
    /\ Len(df) = Len(df_to_geocode)
    /\ \A i \in 1..Len(df) :
          df[i].search_query # SKIP =>
              /\ \E k \in 1..Len(rows_to_process) : rows_to_process[k] = i
              /\ df[i].search_query \in DOMAIN query_cache

\* C15: a failed external lookup never aborts the run: once a call has
\* raised, the run still goes through every remaining workable row (from the
\* cache or by its own call) and ends by returning the full table.
C15_FailureDoesNotAbort == Failed ~> (Geocoded /\ AllProcessed)

\* a finished run in which a call raised and a later row with another query
\* was geocoded by its own call
C15_Witness ==
    /\ Geocoded /\ AllProcessed
    /\ \E i, j \in 1..Len(df) :
          /\ i < j
          /\ df[i].search_query \in DOMAIN query_cache
          /\ query_cache[df[i].search_query].none
          /\ df[j].search_query # df[i].search_query
          /\ df[j].place_name \in {Place1.name, Place2.name}
          /\ CallsFor(df[j].search_query) = 1

\* C16: at the end of the run every row whose query's call raised (the row
\* that made the call and every later row with the same query) has its input
\* latitude and longitude and an empty place_name, and 'NO_RESULTS_FOUND'
\* stands only in rows whose lookup returned an empty result set.
C16_FailedRowsLeftUnset ==
    Geocoded =>
        \A i \in 1..Len(df) :
            LET q == df[i].search_query IN
            /\ (q \in DOMAIN query_cache /\ query_cache[q].none) =>
                  /\ df[i].latitude = df_to_geocode[i].latitude
                  /\ df[i].longitude = df_to_geocode[i].longitude
                  /\ df[i].place_name = ""
            /\ df[i].place_name = "NO_RESULTS_FOUND" =>
                  /\ q \in DOMAIN query_cache
                  /\ ~query_cache[q].none
                  /\ query_cache[q].results = <<>>

GeocodingFields == {"latitude", "longitude", "place_name"}

\* C17: a step of the loop changes at most the latitude, longitude and
\* place_name of the row it is processing: every other row, also one with
\* the same query, and every other column stay as they are.
C17_StepWritesOneRow ==
    [][InLoop =>
          /\ Len(df') = Len(df)
          /\ \A i \in 1..Len(df) :
                IF i = CurrentIndex
                THEN /\ DOMAIN df'[i] = DOMAIN df[i]
                     /\ \A c \in DOMAIN df[i] \ GeocodingFields : df'[i][c] = df[i][c]
                ELSE df'[i] = df[i]]_vars

\* in the loop: a row has been given a place while a later row with the same
\* query, not yet processed, still has none
C17_Witness ==
    /\ InLoop
    /\ \E i \in 1..Len(df) :
          /\ i < CurrentIndex
          /\ df[i].search_query = CurrentQuery
          /\ df[i].place_name = Place1.name
          /\ df[i].latitude = Place1.lat
          /\ df[CurrentIndex].place_name = ""
          /\ df[CurrentIndex].latitude = df_to_geocode[CurrentIndex].latitude

\* C18: a row planned as 'SKIP' is never geocoded: it is not in
\* rows_to_process, no call is made with its query, and at the end of the run
\* it has its input latitude and longitude and an empty place_name.
C18_SkipNeverGeocoded ==
    /\ \A k \in 1..Len(rows_to_process) : df[rows_to_process[k]].search_query # SKIP
    /\ \A k \in 1..Len(gmaps_calls) : gmaps_calls[k] # SKIP
    /\ Len(gmaps_calls) <= Len(rows_to_process)
    /\ Geocoded =>
          \A i \in 1..Len(df) :
              df[i].search_query = SKIP =>
                  /\ df[i].latitude = df_to_geocode[i].latitude
                  /\ df[i].longitude = df_to_geocode[i].longitude
                  /\ df[i].place_name = ""

\* a finished run with a skipped row left alone between rows that were geocoded
C18_Witness ==
    /\ Geocoded
    /\ \E i, j \in 1..Len(df) :
          /\ df[i].search_query = SKIP
          /\ df[i].latitude = df_to_geocode[i].latitude
          /\ df[i].place_name = ""
          /\ i < j
          /\ df[j].place_name = Place2.name
          /\ df[j].latitude = Place2.lat
    /\ gmaps_calls # <<>>

\* the rows the loop has gone through so far
ProcessedRows ==
    IF phase \in {"loop", "geocoded"}
    THEN {rows_to_process[k] : k \in 1..(pos - 1)}
    ELSE {}

\* the lookup for a query returned an empty result set
EmptyResult(q) ==
    /\ q \in DOMAIN query_cache
    /\ ~query_cache[q].none
    /\ query_cache[q].results = <<>>

FoundCandidates(q) ==
    /\ q \in DOMAIN query_cache
    /\ ~query_cache[q].none
    /\ query_cache[q].results # <<>>

\* C27: at the end of the run any two workable rows with the same query whose
\* lookup returned at least one candidate hold the same latitude, longitude
\* and place_name, those of the first candidate, whatever coordinates they
\* came with and whichever of them made the call.
C27_SameQuerySamePlace ==
    Geocoded =>
        \A i, j \in 1..Len(df) :
            (/\ df[i].search_query # SKIP
             /\ df[i].search_query = df[j].search_query
             /\ FoundCandidates(df[i].search_query)) =>
                LET first == query_cache[df[i].search_query].results[1] IN
                /\ df[i].latitude = df[j].latitude
                /\ df[i].longitude = df[j].longitude
                /\ df[i].place_name = df[j].place_name
                /\ df[i].latitude = first.lat
                /\ df[i].longitude = first.lng
                /\ df[i].place_name = first.name

\* a finished run with two rows that came with different coordinates, share
\* a query answered with two candidates by one call, and both hold the first
\* candidate
C27_Witness ==
    /\ Geocoded
    /\ \E i, j \in 1..Len(df) :
          /\ i < j
          /\ df[i].search_query = df[j].search_query
          /\ df_to_geocode[i].latitude # df_to_geocode[j].latitude
          /\ FoundCandidates(df[i].search_query)
          /\ Len(query_cache[df[i].search_query].results) = 2
          /\ CallsFor(df[i].search_query) = 1
          /\ df[i].place_name = Place2.name
          /\ df[j].place_name = Place2.name
          /\ df[j].latitude = Place2.lat

(***************************************************************************)
(* Properties of the loop body run by two workers (checked under           *)
(* SpecWorkers)                                                            *)
(***************************************************************************)
\* C26: when the test, the call and the store of a row are done under one
\* lock, no query is ever called twice, in any interleaving of the two
\* workers.  (Without the lock both workers can miss the same query and call
\* for it twice: C26_Witness.)
C26_LockedOneCallPerQuery ==
    use_lock => \A k \in 1..Len(gmaps_calls) : CallsFor(gmaps_calls[k]) = 1

\* no lock: both workers tested the same query before either stored its
\* result, and gmaps.places has been called twice with it
C26_Witness ==
    /\ ~use_lock
    /\ Len(gmaps_calls) = 2
    /\ gmaps_calls[1] = gmaps_calls[2]
    /\ worker_row[1] # worker_row[2]
    /\ WorkerQuery(1) = WorkerQuery(2)
    /\ \A w \in Workers : worker_pc[w] = "store"
    /\ query_cache = EmptyCache

(***************************************************************************)
(* Properties of the query planner (checked under SpecPlan)                *)
(***************************************************************************)
PlanDone == phase \in {"loop", "geocoded"}

\* the five fatal flaws as the documentation words them
NamedFatalFlaw(row) ==
    \/ row.facility \in {NA, nan}
    \/ StartsWith(row.facility, CallSuneva)
    \/ row.zip = ZeroZip
    \/ EndsWith(Lower(row.facility), site)
    \/ row.facility # <<>> /\ row.facility[Len(row.facility)] \in Digits

\* C11: the planner gives a row the query 'SKIP' if and only if its facility
\* is 'N/A' or 'nan', or starts with 'Call Suneva', or its zip is '00000', or
\* its facility ends with 'site' in any letter case, or ends with one or
\* more digits; the zip never rescues a flawed facility name.
C11_SkipIffFatalFlaw ==
    PlanDone =>
        \A i \in 1..Len(df) : df[i].search_query = SKIP <=> NamedFatalFlaw(df[i])

CommaSpace == <<",", " ">>

\* C12: the query of a workable row is '<facility>, <city>, <state> <zip>'
\* when its zip is neither 'N/A' nor 'nan', and '<facility>, <city>, <state>'
\* with nothing after the state otherwise.
C12_QueryShape ==
    PlanDone =>
        \A i \in 1..Len(df) :
            LET row == df[i]
                place == row.facility \o CommaSpace \o row.city \o CommaSpace \o row.state
            IN row.search_query # SKIP =>
                  row.search_query =
                      IF row.zip \notin {NA, nan} THEN place \o <<" ">> \o row.zip
                      ELSE place

\* a planned table with a workable row whose zip is 'nan' and one whose zip
\* is a real code
C12_Witness ==
    /\ PlanDone
    /\ \E i, j \in 1..Len(df) :
          /\ df[i].zip = nan /\ df[i].search_query # SKIP
          /\ df[i].search_query[Len(df[i].search_query)] = "A"
          /\ df[j].zip \notin {NA, nan, ZeroZip} /\ df[j].search_query # SKIP
          /\ df[j].search_query[Len(df[j].search_query)] = "4"

(***************************************************************************)
(* Properties of extract_study_details (checked under SpecExtract)         *)
(***************************************************************************)
Extracted == phase = "extracted"

\* the locations of a record that are in the target country with both a
\* latitude and a longitude
CompleteLocations(study) ==
    SelectSeq(study.locations,
              LAMBDA loc : /\ loc.country = COUNTRY_TO_ISOLATE
                           /\ {"lat", "lon"} \subseteq DOMAIN loc.geoPoint)

\* C22: every facility record returned comes from a location of the target
\* country that has both a latitude and a longitude; a location with no
\* coordinates or with only one of the two contributes no record.
C22_CompleteCoordinatePair ==
    Extracted =>
        LET complete == CompleteLocations(study_record) IN
        /\ Len(returned_details.us_facilities) = Len(complete)
        /\ \A k \in 1..Len(returned_details.us_facilities) :
              /\ returned_details.us_facilities[k].latitude # "None"
              /\ returned_details.us_facilities[k].longitude # "None"
              /\ returned_details.us_facilities[k].latitude = complete[k].geoPoint.lat
              /\ returned_details.us_facilities[k].longitude = complete[k].geoPoint.lon

\* a value read the lenient way: a missing or non-numeric value counts 0
LenientInt(m) ==
    IF "value" \in DOMAIN m /\ IsIntLiteral(m.value) THEN ParseInt(m.value) ELSE 0

RECURSIVE LenientSum(_)
LenientSum(ms) == IF ms = <<>> THEN 0 ELSE LenientInt(ms[1]) + LenientSum(Tail(ms))

\* the race data the documentation promises for a record
PromisedRaceData(study) ==
    LET categories == IF study.race_classes = <<>> THEN <<>> ELSE study.race_classes[1]
        titled == {k \in 1..Len(categories) : categories[k].title # <<>>}
    IN [key \in {RaceKey(categories[k].title) : k \in titled} |->
            LenientSum(categories[CHOOSE k \in titled :
                                     RaceKey(categories[k].title) = key].measurements)]

\* C23: extract_study_details never raises on malformed fields: it returns,
\* and for each titled category of the race measure it holds the sum of the
\* measurement values under 'Race_<title>', a missing or non-numeric value
\* counting 0, and an empty list of classes giving no race data.
C23_NeverRaises ==
    /\ phase # "raised"
    /\ Extracted => returned_details.race_data = PromisedRaceData(study_record)

(***************************************************************************)
(* Properties of the row assembler (checked under SpecAssemble)            *)
(***************************************************************************)
Processed == phase = "processed"

\* C2: every row of the table process_raw_data returns has at least one of
\* the six flags Type_I..Type_VI equal to 1, also when every assembled row
\* was classified 'Not Specified'.
C2_EveryRowHasAFlag ==
    Processed =>
        \A k \in 1..Len(df_processed) :
            \E n \in 1..6 : df_processed[k][TypeKey(Romans[n])] = 1

\* a study has a qualifying facility: a location in the isolated country that
\* carries a geoPoint
HasQualifyingFacility(study) ==
    \E k \in 1..Len(study.locations) :
        /\ study.locations[k].country = COUNTRY_TO_ISOLATE
        /\ DOMAIN study.locations[k].geoPoint # {}

\* the Race_* keys a study produces
RaceKeysOf(study) ==
    {RaceKey(study.race_categories[k].title) :
        k \in {j \in 1..Len(study.race_categories) :
                  study.race_categories[j].title # <<>>}}

\* the study a row of the table was assembled from
StudyOf(row) == CHOOSE i \in 1..Len(studies) : studies[i].nctId = row.nctId

\* the rows of the returned table that come from the study at position i
RowsOfStudy(i) ==
    {k \in 1..Len(df_processed) : df_processed[k].nctId = studies[i].nctId}

\* C13: in the returned table every row has a value for every Race_* key
\* produced by any study of the run that had a qualifying facility, and a row
\* whose own study lacks the key holds 0 for it.
C13_RaceKeysZeroFilled ==
    Processed =>
        \A k \in 1..Len(df_processed) : \A i \in 1..Len(studies) :
            HasQualifyingFacility(studies[i]) =>
                \A key \in RaceKeysOf(studies[i]) :
                    /\ key \in DOMAIN df_processed[k]
                    /\ key \notin RaceKeysOf(studies[StudyOf(df_processed[k])])
                          => df_processed[k][key] = 0

\* a returned row holding 0 for a race key that only a study without any row
\* in the table produced
C13_Witness ==
    /\ Processed
    /\ \E k \in 1..Len(df_processed) : \E i \in 1..Len(studies) :
          /\ HasQualifyingFacility(studies[i])
          /\ RowsOfStudy(i) = {}
          /\ \E key \in RaceKeysOf(studies[i]) :
                /\ key \notin RaceKeysOf(studies[StudyOf(df_processed[k])])
                /\ df_processed[k][key] = 0

\* the classification of the first keyword-bearing inclusion sentence of a study
FirstClassification(study) ==
    extract_and_standardize_scores(inclusion_sentences(study)[1])

\* (a sentence can only be vetoed in a text that holds the veto term)
VetoedFirst(study) ==
    /\ Contains(Lower(study.eligibilityCriteria), wrinkle)
    /\ inclusion_sentences(study) # <<>>
    /\ FirstClassification(study).extracted_score = "Not a Skin Type Score"

\* C14: a study whose first keyword-bearing inclusion sentence is classified
\* 'Not a Skin Type Score' has no row in the returned table, whatever its
\* later sentences and facilities are.
C14_VetoDropsStudy ==
    Processed =>
        \A i \in 1..Len(studies) : VetoedFirst(studies[i]) => RowsOfStudy(i) = {}

\* a vetoed study with a qualifying facility and a later inclusion sentence
\* that names a skin type, absent from a table that has rows
C14_Witness ==
    /\ Processed
    /\ df_processed # <<>>
    /\ \E i \in 1..Len(studies) :
          /\ VetoedFirst(studies[i])
          /\ HasQualifyingFacility(studies[i])
          /\ Len(inclusion_sentences(studies[i])) >= 2
          /\ FlagSet(extract_and_standardize_scores(
                         inclusion_sentences(studies[i])[2])) # {}
          /\ RowsOfStudy(i) = {}

\* the locations of a study that qualify, in the order of the record
QualifyingLocations(study) ==
    SelectSeq(study.locations,
              LAMBDA loc : loc.country = COUNTRY_TO_ISOLATE /\ DOMAIN loc.geoPoint # {})

\* the rows the iteration in progress appends
Emitted ==
    SubSeq(all_facility_rows', Len(all_facility_rows) + 1, Len(all_facility_rows'))

\* the label and the six flags of a classification or of a row
LabelAndFlags(r) ==
    [c \in {"extracted_score"} \cup skin_type_cols |-> r[c]]

\* C24: an iteration of the loop appends nothing for a skipped study (no
\* qualifying facility, no keyword-bearing inclusion sentence, or a vetoed
\* first one), and otherwise exactly one row per qualifying facility, in order,
\* each with the label and the six flags of the classification of the study's
\* first keyword-bearing inclusion sentence; later inclusion sentences and
\* exclusion sentences change nothing.
C24_RowsOfFirstInclusionSentence ==
    [][(phase = "studies" /\ study_pos <= Len(studies)) =>
          LET study == studies[study_pos]
              qualifying == QualifyingLocations(study)
              sentences == inclusion_sentences(study)
              first == extract_and_standardize_scores(sentences[1])
              emitted == Emitted
          IN /\ SubSeq(all_facility_rows', 1, Len(all_facility_rows)) = all_facility_rows
             /\ IF qualifying = <<>> THEN emitted = <<>>
                ELSE IF sentences = <<>> THEN emitted = <<>>
                ELSE IF first.extracted_score = "Not a Skin Type Score"
                     THEN emitted = <<>>
                ELSE /\ Len(emitted) = Len(qualifying)
                     /\ \A k \in 1..Len(qualifying) :
                           /\ emitted[k].nctId = study.nctId
                           /\ emitted[k].facility = qualifying[k].facility
                           /\ LabelAndFlags(emitted[k]) = LabelAndFlags(first)
      ]_vars

\* the rows assembled so far that come from the study at position i
AssembledOf(i) ==
    SelectSeq(all_facility_rows, LAMBDA row : row.nctId = studies[i].nctId)

\* the keyword-bearing exclusion sentences of a study
ExclusionSentences(study) ==
    SelectSeq(parse_eligibility_criteria(study.eligibilityCriteria, SEARCH_KEYWORD),
              LAMBDA f : f.is_exclusion)

\* two processed studies with two qualifying facilities each and two rows
\* each: one has a later inclusion sentence that classifies differently from
\* its first, the other a keyword-bearing exclusion sentence that classifies
\* differently from its first inclusion sentence
C24_Witness ==
    /\ phase = "studies"
    /\ \E i, j \in 1..(study_pos - 1) :
          /\ Len(QualifyingLocations(studies[i])) = 2
          /\ Len(AssembledOf(i)) = 2
          /\ Len(inclusion_sentences(studies[i])) >= 2
          /\ extract_and_standardize_scores(inclusion_sentences(studies[i])[2])
                .extracted_score # AssembledOf(i)[1].extracted_score
          /\ Len(QualifyingLocations(studies[j])) = 2
          /\ Len(AssembledOf(j)) = 2
          /\ ExclusionSentences(studies[j]) # <<>>
          /\ extract_and_standardize_scores(ExclusionSentences(studies[j])[1].sentence)
                .extracted_score # AssembledOf(j)[2].extracted_score

(***************************************************************************)
(* Properties of the two planners (checked under SpecCompare)              *)
(***************************************************************************)
BothPlanned == phase = "loop" /\ geocoding_input # <<>>

\* C30: once both planners have run on a table, every row has the same
\* search_query in both results: 'SKIP' in both or the same query string,
\* also for rows that came with null cells.
C30_PlannersAgree ==
    BothPlanned =>
        /\ Len(geocoding_input) = Len(df)
        /\ \A i \in 1..Len(df) :
              /\ geocoding_input[i].search_query = df[i].search_query
              /\ \A c \in {"facility", "city", "state", "zip"} :
                    geocoding_input[i][c] = df[i][c]

\* both planners have run on a table with a row whose facility was None, for
\* which both built a query out of 'None', and a row whose zip was NaN, for
\* which both built the query without a zip code
C30_Witness ==
    /\ BothPlanned
    /\ \E i, j \in 1..Len(df) :
          /\ df_to_geocode[i].facility = NoneCell
          /\ df[i].search_query # SKIP
          /\ geocoding_input[i].search_query = df[i].search_query
          /\ StartsWith(df[i].search_query, <<"N","o","n","e",",">>)
          /\ df_to_geocode[j].zip = NaNCell
          /\ ~IsNull(df_to_geocode[j].facility)
          /\ df[j].search_query # SKIP
          /\ geocoding_input[j].search_query
                = df[j].facility \o CommaSpace \o df[j].city \o CommaSpace \o df[j].state


(***************************************************************************)
\* the step calls a stage: it appends the stage to stage_log
Calls(stage) == stage_log' = Append(stage_log, stage)

Logged(stage) == \E k \in 1..Len(stage_log) : stage_log[k] = stage

\* C28: main runs its stages in a guarded order.  The registry is fetched
\* only when neither the final CSV nor the raw JSON file exists; the geocoder
\* is called, and any of its lookups is made, only when the final CSV does not
\* exist and process_raw_data has returned a table with rows; in the full
\* pipeline the map is made only after to_csv has returned, never after it
\* raised; and when the final CSV exists the run is read_csv and then the map
\* or nothing.
C28_GuardedStageOrder ==
    [][/\ Calls("fetch") => ~final_csv.exists /\ ~raw_json.exists
       /\ (Calls("geocode") \/ gmaps_calls' # gmaps_calls) =>
             /\ ~final_csv.exists
             /\ Logged("process")
             /\ phase \in {"processed", "loop"}
             /\ df_processed # <<>>
       /\ Calls("map") =>
             /\ final_csv.exists
             /\ ~Logged("to_csv raised")
             /\ Logged("read_csv") \/ Logged("to_csv")
             /\ Logged("to_csv") => final_csv.content = df_final
       /\ Logged("read_csv") =>
             /\ stage_log' \in {<<"read_csv">>, <<"read_csv", "map">>}
             /\ gmaps_calls' = <<>>
      ]_vars

\* a full run: fetched, processed, geocoded with a lookup, saved, mapped
C28_Witness ==
    /\ phase = "done"
    /\ stage_log = <<"fetch", "process", "geocode", "to_csv", "map">>
    /\ gmaps_calls # <<>>
    /\ final_csv.exists /\ raw_json.exists
    /\ map_html = File(df_final)

(***************************************************************************)
(* Properties of main of usa_map (checked under SpecUsaMain)               *)
(***************************************************************************)
\* the run has written the final dataset
WroteFinalCsv == Logged("to_csv")

\* the rows assembled by the loop whose six flags sum to zero
AllAssembledUnparsed ==
    \A k \in 1..Len(all_facility_rows) : FlagSum(all_facility_rows[k]) = 0

\* C29: the final CSV the run writes and the map it makes hold no row whose
\* six type flags sum to zero, and hold every other assembled row; and a run
\* in which every assembled row is unparsed ends with the final dataset not
\* written and no map made.
C29_UnparsedRowsNeverShown ==
    /\ WroteFinalCsv =>
          /\ \A k \in 1..Len(final_csv.content) : FlagSum(final_csv.content[k]) # 0
          /\ Len(final_csv.content)
                = Len(SelectSeq(all_facility_rows, LAMBDA row : FlagSum(row) # 0))
    /\ map_html.exists =>
          /\ \A k \in 1..Len(map_html.content) : FlagSum(map_html.content[k]) # 0
          /\ Len(map_html.content)
                = Len(SelectSeq(all_facility_rows, LAMBDA row : FlagSum(row) # 0))
    /\ (phase \in {"usa_table", "usa_map", "done"} /\ AllAssembledUnparsed) =>
          /\ ~WroteFinalCsv
          /\ final_csv \in {NoFile} \cup {File(t) : t \in StoredTables}
          /\ ~map_html.exists

\* a finished run that assembled rows, all of them unparsed: they are in
\* unparsed_studies.csv, and there is neither a final dataset nor a map
C29_Witness ==
    /\ phase = "done"
    /\ all_facility_rows # <<>>
    /\ AllAssembledUnparsed
    /\ unparsed_csv.exists
    /\ Len(unparsed_csv.content) = Len(all_facility_rows)
    /\ final_csv = NoFile
    /\ ~map_html.exists

====
